---- MODULE Spec2Model ----
(***************************************************************************)
(* Model of the concurrent spatial-attribution engine of                   *)
(* ak-wildfire-values-at-risk: the analysis scheduler (gather_results),    *)
(* the query fan-out (send_all_queries / send_query_bundle), the response  *)
(* classifier (_handle_query_responses) and the analyzers' result          *)
(* emission (batch_write_attr_tups, _analyze_*_var,                        *)
(* _nearest_feats_analysis).                                               *)
(***************************************************************************)
EXTENDS Integers, Sequences, FiniteSets, TLC

(***************************************************************************)
(* Bounds of the model.                                                    *)
(***************************************************************************)
MaxProcs == 3

MaxBatch == 2

MaxCap == 2

VARIABLES
    \* ---- analysis scheduler: process/analysis.py gather_results ----
    nprocs,           \* len(processes)
    batch_size,       \* batch_size argument
    capacity,         \* maxsize of manager_queue
    proc_state,       \* per process: "initial" | "running" | "put_done" | "exited"
    starts,           \* per process: number of p.start() calls
    joined,           \* per process: p.join() has returned
    manager_queue,    \* items on the result channel, oldest first
    process_results,  \* the list gather_results returns
    pc,               \* position of gather_results
    i,                \* loop variable of `for i in range(0, len(processes), batch_size)`
    k,                \* index, inside the batch, of the `for p in batch` loops
    all_exited,       \* local all_exited
    get_failed,       \* the last manager_queue.get(block=False) raised queue.Empty
    late_put,         \* history: some put happened after a failed get of the same poll iteration
    backlog,          \* history: some worker was blocked in put on a full channel
    \* ---- query fan-out: process/queries.py send_all_queries,
    \*      utils/arcgis_helpers.py AsyncArcGISRequester ----
    hpc,              \* position of send_all_queries
    session,          \* self.session: "none" | "open" | "closed"
    task_pc,          \* per bundle: the await its task is suspended at, or "done"
    stage,            \* per bundle: "props" (layer info request) | "page" (query? request)
    attempts,         \* per bundle: local attempts of arcgis_rest_api_get
    retry_delay,      \* per bundle: local retry_delay of arcgis_rest_api_get
    result_rec_count, \* per bundle: local result_rec_count of paginate_arcgis_features
    result_offset,    \* per bundle: params['resultOffset']
    features,         \* per bundle: local features of paginate_arcgis_features
    page_requests,    \* per bundle: number of query? requests issued
    log,              \* per bundle, history: what the source delivered to its task
    outcome,          \* per bundle: what its send_query_bundle task returned or raised
    query_responses,  \* local query_responses of send_all_queries, "unbound" before assignment
    body_exception,   \* the exception the body of `async with` raised, "none" otherwise
    requester_exception, \* requester.exception
    call_result,      \* what the call of send_all_queries did: returned a value or raised
    \* ---- response classifier: process/queries.py _handle_query_responses ----
    analysis_plan,    \* per alias: its analysis_types dict (write_analysis_types_dict)
    chunk,            \* the query_responses argument of the classifier (one chunk)
    cpc,              \* position of the classifier: "loop" | "done" | "idle"
    ci,               \* number of responses the `for response in query_responses` loop has handled
    query_features_dict,  \* { IrwinID : [(var_alias, gdf), ...] }, in insertion order
    results_no_analysis,  \* attribution tuple lists that bypass analysis
    logger_dict,      \* { 'critical' : [...], 'error' : [...] }
    \* ---- one work unit: process/analysis.py _analyze_*_var, _nearest_feats_analysis ----
    unit,             \* the target and arguments of the process
    wpc,              \* position of the unit: "try" | "blocks" | "done" | "idle"
    wb,               \* the attribute block of the try body the unit stands before
    attr_tups,        \* local attr_tups
    channel,          \* what the unit has put on manager_queue
    raised,           \* history: the outer `except Exception` handled an exception
    \* ---- a run: main.py, from the query responses to the merged tuple list ----
    rpc,              \* position of main
    all_processes,    \* all_processes, as the units gather_processes prepared
    ran,              \* the processes whose result gather_results has collected
    results,          \* local results of main
    edits_sent,       \* apply_edits_to_dof_var_service has been called
    attribute_dataframe, \* what create_attribute_dataframe returned
    \* ---- one transport call: utils/arcgis_helpers.py arcgis_rest_api_get / _post ----
    request_args,     \* the method and the arguments of the call
    tpc,              \* position of the call: "request" | "sleep" | "returned" | "raised" | "idle"
    call_attempts,    \* local attempts
    call_retry_delay, \* local retry_delay
    delivered,        \* history: what each request the call issued came back with
    sleeps,           \* history: the durations of the call's asyncio.sleep, in order
    transport_result, \* what the call returned or raised
    \* ---- one paginated query: utils/arcgis_helpers.py paginate_arcgis_features ----
    ppc,              \* position of the call: "props" | "page" | "returned" | "raised" | "idle"
    rec_count,        \* local result_rec_count
    offset,           \* params['resultOffset']
    page_features,    \* local features
    pages,            \* history: the payloads of the query? requests, in request order
    offsets,          \* history: params['resultOffset'] of each query? request
    props_had_count,  \* history: the layer info held maxRecordCount
    page_result,      \* what the call returned or raised
    \* ---- the feature-set serializer: process/analysis.py _trim_nearest_feats ----
    nearest_feats_fset, \* the argument: { 'features', 'popped', 'cutoff' }
    trim_pc,          \* position of the call: "start" | "search" | "returned" | "raised" | "idle"
    low,              \* local low
    high,             \* local high
    best_serialized,  \* local best_serialized, unbound before its first assignment
    trim_result,      \* the string the call returned
    \* ---- one bundle with nearest-feature extraction: queries.py
    \* ---- _handle_query_responses, then analysis.py _nearest_feats_analysis ----
    prox_unit,        \* the unit's identifier, var_alias and directive
    prox_response,    \* the data the bundle's query came back with
    clipped_var_gdf,  \* var_gdf: the unit's candidate features, clipped to the 5 mile ring
    prox_pc,          \* "classify" | "start" | "interior" | "nearest" | "put" | "done" | "bypassed" | "dropped" | "idle"
    prox_tups,        \* the unit's local attr_tups
    prox_queue,       \* the lists the unit put on manager_queue
    prox_bypass,      \* the lists the classifier added to results_no_analysis
    prox_fsets,       \* the capped feature sets of lines 429-443, before trimming
    \* ---- query bundles: process/queries.py gather_query_bundles ----
    new_fires_gdf,    \* the fires of the run: rows (IrwinID, geometry)
    analysis_gdf,     \* rows (buf_dist, IrwinID, geometry), <<>> before it is created
    query_plan,       \* rows (ALIAS, URL, QUERY_PARAMETERS, AGO_ORGANIZATION)
    query_bundles,    \* the tuple gather_query_bundles returns
    bundle_pc,        \* "idle", "fires", "gather", "done"
    \* ---- grouped sums: process/analysis.py _run_acres_sum_by_attr ----
    group_gdf,        \* the clipped rows: (attr, measure)
    group_kind,       \* "acres" or "feet"
    group_sums,       \* the dict the function returns, NoDict before
    group_pc,         \* "idle", "call", "done"
    \* ---- compass label: process/analysis.py _get_cardinal_direction ----
    point_a,          \* the starting point <<x, y>>
    point_b,          \* the ending point <<x, y>>
    direction,        \* the label returned, "" before the call
    dir_pc,           \* "idle", "call", "done"
    \* ---- ring reconstruction: utils/arcgis_helpers.py _arcgis_polygon_cleanup ----
    rings,            \* row['geometry']['rings']: closed vertex lists
    exterior_rings,   \* the polygons of the rings no other ring contains
    interior_rings,   \* the polygons of the rings another ring contains
    output_polygon,   \* the geometry returned, NoGeometry before
    cleanup_pc,       \* "idle", "start", "classified", "oriented", "done"
    \* ---- classifier pools: process/queries.py handle_query_response_pools ----
    pool_responses,   \* query_responses
    pool_plan,        \* analysis_plan
    pool_rows,        \* len(analysis_gdf)
    pool_batch_size,  \* batch_size
    response_chunks,  \* the chunks handed to the pool
    starmap_results,  \* the tuples the pool returns, one per chunk
    pool_merged,      \* the tuple _merge_pool_results returns
    pool_pc,          \* "idle", "size", "chunk", "starmap", "merge", "done", "raised"
    \* ---- attribute JSON: process/analysis.py _sort_trim_attr_json ----
    attr_json,             \* the argument: the items of the dict in insertion order
    attr_json_sorted,      \* the sorted dict, items in insertion order
    attr_json_serialized,  \* json.dumps(attr_json_sorted): its items and its length
    attr_pc,               \* "idle", "start", "loop", "returned"
    \* ---- target service layers: process/prepare_wfigs_inputs.py get_wfigs_updates ----
    tmax_responses,      \* per layer, MAX_wfigs_ModifiedOnDateTime_dt of its response
    err_responses,       \* per layer, the IrwinIDs of its HasError = 1 features
    seconds,             \* the set seconds
    irwins_with_errors,  \* the set irwins_with_errors
    check_json_pickles,  \* the flag
    lyr,                 \* position of the loop over err_responses
    wfigs_pc             \* "idle", "tmax", "errors", "compared"

schedVars == <<nprocs, batch_size, capacity, proc_state, starts, joined,
               manager_queue, process_results, pc, i, k, all_exited,
               get_failed, late_put, backlog>>

queryVars == <<hpc, session, task_pc, stage, attempts, retry_delay,
               result_rec_count, result_offset, features, page_requests, log,
               outcome, query_responses, body_exception, requester_exception,
               call_result>>

classVars == <<analysis_plan, chunk, cpc, ci, query_features_dict,
               results_no_analysis, logger_dict>>

workVars == <<unit, wpc, wb, attr_tups, channel, raised>>

runVars == <<rpc, all_processes, ran, results, edits_sent, attribute_dataframe>>

transportVars == <<request_args, tpc, call_attempts, call_retry_delay,
                   delivered, sleeps, transport_result>>

pageVars == <<ppc, rec_count, offset, page_features, pages, offsets,
              props_had_count, page_result>>

trimVars == <<nearest_feats_fset, trim_pc, low, high, best_serialized,
              trim_result>>

proxVars == <<prox_unit, prox_response, clipped_var_gdf, prox_pc, prox_tups, prox_queue,
              prox_bypass, prox_fsets>>

bundleVars == <<new_fires_gdf, analysis_gdf, query_plan, query_bundles, bundle_pc>>

groupVars == <<group_gdf, group_kind, group_sums, group_pc>>

dirVars == <<point_a, point_b, direction, dir_pc>>

cleanupVars == <<rings, exterior_rings, interior_rings, output_polygon, cleanup_pc>>

poolVars == <<pool_responses, pool_plan, pool_rows, pool_batch_size, response_chunks,
              starmap_results, pool_merged, pool_pc>>

attrVars == <<attr_json, attr_json_sorted, attr_json_serialized, attr_pc>>

wfigsVars == <<tmax_responses, err_responses, seconds, irwins_with_errors,
               check_json_pickles, lyr, wfigs_pc>>

vars ==
    <<schedVars, queryVars, classVars, workVars, runVars,
      transportVars, pageVars, trimVars, proxVars, bundleVars,
      groupVars, dirVars, cleanupVars, poolVars, attrVars, wfigsVars>>

\* what the scheduler's steps leave alone
nonSchedVars ==
    <<queryVars, classVars, workVars, runVars, transportVars, pageVars,
      trimVars, proxVars, bundleVars, groupVars, dirVars, cleanupVars,
      poolVars, attrVars, wfigsVars>>

\* what the query fan-out's steps leave alone
nonQueryVars ==
    <<schedVars, classVars, workVars, runVars, transportVars, pageVars,
      trimVars, proxVars, bundleVars, groupVars, dirVars, cleanupVars,
      poolVars, attrVars, wfigsVars>>

\* what the classifier's steps leave alone
nonClassVars ==
    <<schedVars, queryVars, workVars, runVars, transportVars, pageVars,
      trimVars, proxVars, bundleVars, groupVars, dirVars, cleanupVars,
      poolVars, attrVars, wfigsVars>>

\* what a work unit's steps leave alone
nonWorkVars ==
    <<schedVars, queryVars, classVars, runVars, transportVars,
      pageVars, trimVars, proxVars, bundleVars, groupVars, dirVars,
      cleanupVars, poolVars, attrVars, wfigsVars>>

\* what main's steps leave alone besides the classifier's accumulators
nonRunVars ==
    <<schedVars, queryVars, workVars, transportVars, pageVars,
      trimVars, proxVars, bundleVars, groupVars, dirVars, cleanupVars,
      poolVars, attrVars, wfigsVars>>

\* what a transport call's steps leave alone
nonTransportVars ==
    <<schedVars, queryVars, classVars, workVars, runVars, pageVars,
      trimVars, proxVars, bundleVars, groupVars, dirVars, cleanupVars,
      poolVars, attrVars, wfigsVars>>

\* what a paginated query's steps leave alone
nonPageVars ==
    <<schedVars, queryVars, classVars, workVars, runVars,
      transportVars, trimVars, proxVars, bundleVars, groupVars,
      dirVars, cleanupVars, poolVars, attrVars, wfigsVars>>

\* what the serializer's steps leave alone
nonTrimVars ==
    <<schedVars, queryVars, classVars, workVars, runVars,
      transportVars, pageVars, proxVars, bundleVars, groupVars,
      dirVars, cleanupVars, poolVars, attrVars, wfigsVars>>

\* what a proximity unit's steps leave alone
nonProxVars ==
    <<schedVars, queryVars, classVars, workVars, runVars,
      transportVars, pageVars, trimVars, bundleVars, groupVars,
      dirVars, cleanupVars, poolVars, attrVars, wfigsVars>>

\* what the steps that build the query bundles leave alone
nonBundleVars ==
    <<schedVars, queryVars, classVars, workVars, runVars,
      transportVars, pageVars, trimVars, proxVars, groupVars, dirVars,
      cleanupVars, poolVars, attrVars, wfigsVars>>

\* what a grouped sum leaves alone
nonGroupVars ==
    <<schedVars, queryVars, classVars, workVars, runVars,
      transportVars, pageVars, trimVars, proxVars, bundleVars, dirVars,
      cleanupVars, poolVars, attrVars, wfigsVars>>

\* what the compass label's call leaves alone
nonDirVars ==
    <<schedVars, queryVars, classVars, workVars, runVars,
      transportVars, pageVars, trimVars, proxVars, bundleVars,
      groupVars, cleanupVars, poolVars, attrVars, wfigsVars>>

\* what the ring reconstruction's steps leave alone
nonCleanupVars ==
    <<schedVars, queryVars, classVars, workVars, runVars,
      transportVars, pageVars, trimVars, proxVars, bundleVars,
      groupVars, dirVars, poolVars, attrVars, wfigsVars>>

\* what the classifier pools' steps leave alone
nonPoolVars ==
    <<schedVars, queryVars, classVars, workVars, runVars,
      transportVars, pageVars, trimVars, proxVars, bundleVars,
      groupVars, dirVars, cleanupVars, attrVars, wfigsVars>>

\* what the attribute JSON's steps leave alone
nonAttrVars ==
    <<schedVars, queryVars, classVars, workVars, runVars,
      transportVars, pageVars, trimVars, proxVars, bundleVars,
      groupVars, dirVars, cleanupVars, poolVars, wfigsVars>>

\* what the layer comparison's steps leave alone
nonWfigsVars ==
    <<schedVars, queryVars, classVars, workVars, runVars,
      transportVars, pageVars, trimVars, proxVars, bundleVars,
      groupVars, dirVars, cleanupVars, poolVars, attrVars>>

Min(a, b) == IF a < b THEN a ELSE b

Range(s) == {s[x] : x \in DOMAIN s}

(***************************************************************************)
(* gather_results: batch = processes[i:i+batch_size]                       *)
(***************************************************************************)
\* a slice that is one process too long
BatchEndOverlap(off) == Min(off + batch_size + 1, nprocs)

\* index (1-based) of the last process of the batch that starts at offset off
BatchEnd(off) == Min(off + batch_size, nprocs)

\* the processes (1-based indices) of the batch at offset off
Batch(off) == (off + 1) .. BatchEnd(off)

BatchLen(off) == BatchEnd(off) - off

\* a running worker whose put finds the channel full
BlockedInPut(ps, q) ==
    \E p \in DOMAIN ps : ps[p] = "running" /\ Len(q) >= capacity

\* p.exitcode is None
ExitcodeIsNone(p) == proc_state[p] # "exited"

\* leaving the poll loop as soon as the workers are gone
LoopExitIgnoresQueue == all_exited

\* leaving the poll loop as soon as the channel is empty
LoopExitIgnoresLiveness == manager_queue = <<>>

\* leaving the poll loop without polling: join right after start
LoopExitJoinFirst == TRUE

\* `if all_exited and manager_queue.empty(): break`
LoopExit == all_exited /\ manager_queue = <<>>

SchedInit ==
    /\ nprocs \in 0..MaxProcs
    /\ batch_size \in 1..MaxBatch
    /\ capacity \in 1..MaxCap
    /\ proc_state = [p \in 1..nprocs |-> "initial"]
    /\ starts = [p \in 1..nprocs |-> 0]
    /\ joined = [p \in 1..nprocs |-> FALSE]
    /\ manager_queue = <<>>
    /\ process_results = <<>>
    /\ pc = "for"
    /\ i = 0
    /\ k = 0
    /\ all_exited = FALSE
    /\ get_failed = FALSE
    /\ late_put = FALSE
    /\ backlog = FALSE

\* `for i in range(0, len(processes), batch_size)`: next batch, or return
ForBatch ==
    /\ pc = "for"
    /\ UNCHANGED nonSchedVars
    /\ IF i < nprocs THEN pc' = "start" ELSE pc' = "return"
    /\ k' = 0
    /\ UNCHANGED <<nprocs, batch_size, capacity, proc_state, starts, joined,
                   manager_queue, process_results, i, all_exited, get_failed,
                   late_put, backlog>>

\* `for p in batch: p.start()`
StartProcess ==
    /\ pc = "start"
    /\ UNCHANGED nonSchedVars
    /\ IF k < BatchLen(i)
       THEN /\ proc_state' = [proc_state EXCEPT ![i + k + 1] = "running"]
            /\ starts' = [starts EXCEPT ![i + k + 1] = @ + 1]
            /\ k' = k + 1
            /\ pc' = pc
       ELSE /\ pc' = "get"
            /\ k' = 0
            /\ UNCHANGED <<proc_state, starts>>
    /\ UNCHANGED <<nprocs, batch_size, capacity, joined, manager_queue,
                   process_results, i, all_exited, get_failed, late_put>>
    /\ backlog' = (backlog \/ BlockedInPut(proc_state', manager_queue'))

\* `try: result = manager_queue.get(block=False); process_results.append(result)
\*  except queue.Empty: pass`, then `all_exited = True`
PollGet ==
    /\ pc = "get"
    /\ UNCHANGED nonSchedVars
    /\ IF manager_queue # <<>>
       THEN /\ process_results' = Append(process_results, Head(manager_queue))
            /\ manager_queue' = Tail(manager_queue)
            /\ get_failed' = FALSE
       ELSE /\ get_failed' = TRUE
            /\ UNCHANGED <<process_results, manager_queue>>
    /\ all_exited' = TRUE
    /\ k' = 0
    /\ pc' = "check"
    /\ UNCHANGED <<nprocs, batch_size, capacity, proc_state, starts, joined,
                   i, late_put, backlog>>

\* `for p in batch: if p.exitcode is None: all_exited = False; break`
CheckExitcode ==
    /\ pc = "check"
    /\ UNCHANGED nonSchedVars
    /\ IF k < BatchLen(i)
       THEN IF ExitcodeIsNone(i + k + 1)
            THEN /\ all_exited' = FALSE
                 /\ pc' = "empty"
                 /\ k' = k
            ELSE /\ k' = k + 1
                 /\ UNCHANGED <<all_exited, pc>>
       ELSE /\ pc' = "empty"
            /\ UNCHANGED <<all_exited, k>>
    /\ UNCHANGED <<nprocs, batch_size, capacity, proc_state, starts, joined,
                   manager_queue, process_results, i, get_failed, late_put,
                   backlog>>

\* `if all_exited and manager_queue.empty(): break`, else the next poll iteration
CheckDrained ==
    /\ pc = "empty"
    /\ UNCHANGED nonSchedVars
    /\ IF LoopExit THEN pc' = "join" ELSE pc' = "get"
    /\ k' = 0
    /\ UNCHANGED <<nprocs, batch_size, capacity, proc_state, starts, joined,
                   manager_queue, process_results, i, all_exited, get_failed,
                   late_put, backlog>>

\* `for p in batch: p.join()`: each join blocks until the process has exited
JoinProcess ==
    /\ pc = "join"
    /\ UNCHANGED nonSchedVars
    /\ IF k < BatchLen(i)
       THEN /\ proc_state[i + k + 1] = "exited"
            /\ joined' = [joined EXCEPT ![i + k + 1] = TRUE]
            /\ k' = k + 1
            /\ UNCHANGED <<pc, i>>
       ELSE /\ i' = i + batch_size
            /\ pc' = "for"
            /\ k' = 0
            /\ UNCHANGED joined
    /\ UNCHANGED <<nprocs, batch_size, capacity, proc_state, starts,
                   manager_queue, process_results, all_exited, get_failed,
                   late_put, backlog>>

\* the worker's one `manager_queue.put(attr_tups)`: blocks while the channel is full
WorkerPut(p) ==
    /\ proc_state[p] = "running"
    /\ UNCHANGED nonSchedVars
    /\ Len(manager_queue) < capacity
    /\ manager_queue' = Append(manager_queue, p)
    /\ proc_state' = [proc_state EXCEPT ![p] = "put_done"]
    /\ late_put' = (late_put \/ (get_failed /\ pc \in {"check", "empty"}))
    /\ backlog' = (backlog \/ BlockedInPut(proc_state', manager_queue'))
    /\ UNCHANGED <<nprocs, batch_size, capacity, starts, joined,
                   process_results, pc, i, k, all_exited, get_failed>>

\* the worker's target function returns and the process exits
WorkerExit(p) ==
    /\ proc_state[p] = "put_done"
    /\ UNCHANGED nonSchedVars
    /\ proc_state' = [proc_state EXCEPT ![p] = "exited"]
    /\ UNCHANGED <<nprocs, batch_size, capacity, starts, joined, manager_queue,
                   process_results, pc, i, k, all_exited, get_failed, late_put,
                   backlog>>

Scheduler ==
    \/ ForBatch
    \/ StartProcess
    \/ PollGet
    \/ CheckExitcode
    \/ CheckDrained
    \/ JoinProcess

Workers == \E p \in 1..nprocs : WorkerPut(p) \/ WorkerExit(p)

SchedNext == Scheduler \/ Workers

(***************************************************************************)
(* Query fan-out: send_all_queries runs one send_query_bundle task per     *)
(* query bundle on one event loop; a task runs from one await to the next. *)
(***************************************************************************)
\* the query bundles of a run: (IrwinID, URL alias) of each, in order
Bundles == << <<"fire1", "roads">>, <<"fire1", "parcels">> >>

BundleIds == DOMAIN Bundles

\* most query? requests a paginated query issues in the model
MaxPages == 3

\* max_attempts of arcgis_rest_api_get
max_attempts == 3

\* result_rec_count when the layer reports no maxRecordCount
DefaultRecordCount == 1000

\* maxRecordCount of a layer that reports one
LayerRecordCount == 2000

\* a response body (parsed JSON) or exception of one request
Response(kind, exceeded, nfeat) ==
    [kind |-> kind, exceeded |-> exceeded, nfeat |-> nfeat]

\* what the layer-info request can produce
PropsResponses ==
    { Response("props_with_count", "absent", 0),
      Response("props_without_count", "absent", 0),
      Response("ClientError", "absent", 0),
      Response("TimeoutError", "absent", 0) }

\* what a query? request can produce; the source signals truncation only
\* while the model's page bound allows a further request
PageResponses(b) ==
    { Response("page", "absent", 1),
      Response("page", "absent", 0),
      Response("no_features_key", "absent", 0),
      Response("ClientError", "absent", 0),
      Response("TimeoutError", "absent", 0) }
    \cup (IF page_requests[b] < MaxPages
          THEN { Response("page", "true", 1), Response("page", "false", 1) }
          ELSE {})

\* parsed JSON data or a reduced exception, in one shape:
\*   tag "dict":  keys of the object, and its features list when it has one
\*   tag "tuple": e.__reduce__(), head = the exception class
Dict(keys, feats) == [tag |-> "dict", keys |-> keys, feats |-> feats, head |-> "none"]

\* e.__reduce__() of an exception of class cls
Reduce(cls) == [tag |-> "tuple", keys |-> {}, feats |-> <<>>, head |-> cls]

\* an exception object (not reduced), as asyncio.gather returns it
ExceptionObject(cls) == [tag |-> "exception", keys |-> {}, feats |-> <<>>, head |-> cls]

\* one feature of a page; the fan-out does not look inside it
PageFeature == [geometry |-> "rings"]

\* summary of what the source delivered to one task: the number of features
\* in its pages, whether a page lacked the features key, and the class of
\* the exception that ended the paginated query ("none" if it returned)
NoDelivery == [nfeat |-> 0, raw |-> FALSE, raised |-> "none"]

\* the summary d after the response r
Delivered(d, r, raises) ==
    [nfeat |-> d.nfeat + r.nfeat,
     raw |-> (d.raw \/ r.kind = "no_features_key"),
     raised |-> IF raises THEN r.kind ELSE d.raised]

NoOutcome == <<"pending", "pending", Dict({}, <<>>)>>

\* send_query_bundle without its try/except: the exception reaches gather,
\* which hands back the exception object
UncaughtOutcome(b, cls) == <<"", "", ExceptionObject(cls)>>

\* `except Exception as e: return (result_identifier, url_alias, e.__reduce__())`
CaughtOutcome(b, cls) == <<Bundles[b][1], Bundles[b][2], Reduce(cls)>>

\* `return (result_identifier, url_alias, response)`
ReturnedOutcome(b, response) == <<Bundles[b][1], Bundles[b][2], response>>

\* a local name that has not been assigned
Unbound == [bound |-> FALSE, value |-> <<>>]

Bound(v) == [bound |-> TRUE, value |-> v]

\* the call has not finished
Pending == [kind |-> "pending", responses |-> <<>>, exception |-> "none"]

\* the call returned the pair (responses, exception)
Returned(responses, exception) ==
    [kind |-> "returned", responses |-> responses, exception |-> exception]

\* the call raised an exception of class cls
Raised(cls) == [kind |-> "raised", responses |-> <<>>, exception |-> cls]

QueryIdle ==
    /\ hpc = "idle"
    /\ session = "none"
    /\ task_pc = <<>>
    /\ stage = <<>>
    /\ attempts = <<>>
    /\ retry_delay = <<>>
    /\ result_rec_count = <<>>
    /\ result_offset = <<>>
    /\ features = <<>>
    /\ page_requests = <<>>
    /\ log = <<>>
    /\ outcome = <<>>
    /\ query_responses = Unbound
    /\ body_exception = "none"
    /\ requester_exception = "unset"
    /\ call_result = Pending

QueryInit ==
    /\ hpc = "enter"
    /\ session = "none"
    /\ task_pc = [b \in BundleIds |-> "unscheduled"]
    /\ stage = [b \in BundleIds |-> "props"]
    /\ attempts = [b \in BundleIds |-> 0]
    /\ retry_delay = [b \in BundleIds |-> 1]
    /\ result_rec_count = [b \in BundleIds |-> 0]
    /\ result_offset = [b \in BundleIds |-> 0]
    /\ features = [b \in BundleIds |-> <<>>]
    /\ page_requests = [b \in BundleIds |-> 0]
    /\ log = [b \in BundleIds |-> NoDelivery]
    /\ outcome = [b \in BundleIds |-> NoOutcome]
    /\ query_responses = Unbound
    /\ body_exception = "none"
    /\ requester_exception = "unset"
    /\ call_result = Pending

\* local variables of a fresh call of arcgis_rest_api_get
\* `retry_delay = 1; attempts, max_attempts = 0, 3`
NewCall(b) ==
    /\ attempts' = [attempts EXCEPT ![b] = 0]
    /\ retry_delay' = [retry_delay EXCEPT ![b] = 1]

\* the task of bundle b ends with outcome o
Finish(b, o) ==
    /\ outcome' = [outcome EXCEPT ![b] = o]
    /\ task_pc' = [task_pc EXCEPT ![b] = "done"]

\* `async with AsyncArcGISRequester() as requester`: __aenter__
AEnter ==
    /\ hpc = "enter"
    /\ session' = "open"
    /\ hpc' = "gather_start"
    /\ UNCHANGED <<task_pc, stage, attempts, retry_delay, result_rec_count,
                   result_offset, features, page_requests, log, outcome,
                   query_responses, body_exception, requester_exception,
                   call_result>>
    /\ UNCHANGED nonQueryVars

\* `asyncio.gather(*(requester.send_query_bundle(*tup) for tup in query_bundles), ...)`:
\* every task runs to its first await, the layer-info request
GatherStart ==
    /\ hpc = "gather_start"
    /\ task_pc' = [b \in BundleIds |-> "request"]
    /\ hpc' = "gather"
    /\ UNCHANGED <<session, stage, attempts, retry_delay, result_rec_count,
                   result_offset, features, page_requests, log, outcome,
                   query_responses, body_exception, requester_exception,
                   call_result>>
    /\ UNCHANGED nonQueryVars

\* `except aiohttp.ClientError: attempts += 1; if attempts == max_attempts: raise;
\*  await asyncio.sleep(retry_delay)`
OnClientError(b) ==
    /\ attempts' = [attempts EXCEPT ![b] = @ + 1]
    /\ IF attempts[b] + 1 = max_attempts
       THEN Finish(b, CaughtOutcome(b, "ClientError"))
       ELSE /\ task_pc' = [task_pc EXCEPT ![b] = "sleep"]
            /\ UNCHANGED outcome
    /\ UNCHANGED <<retry_delay, stage, result_rec_count, result_offset,
                   features, page_requests>>

\* a retry loop that catches every exception as it catches a client error
OnOtherExceptionRetried(b, cls) ==
    /\ attempts' = [attempts EXCEPT ![b] = @ + 1]
    /\ IF attempts[b] + 1 = max_attempts
       THEN Finish(b, CaughtOutcome(b, cls))
       ELSE /\ task_pc' = [task_pc EXCEPT ![b] = "sleep"]
            /\ UNCHANGED outcome
    /\ UNCHANGED <<retry_delay, stage, result_rec_count, result_offset,
                   features, page_requests>>

\* an exception that is no aiohttp.ClientError leaves arcgis_rest_api_get and
\* paginate_arcgis_features and is caught by send_query_bundle
OnOtherException(b, cls) ==
    /\ Finish(b, CaughtOutcome(b, cls))
    /\ UNCHANGED <<attempts, retry_delay, stage, result_rec_count,
                   result_offset, features, page_requests>>

\* paginate_arcgis_features after the layer-info response:
\* `try: result_rec_count = props['maxRecordCount'] except KeyError: ... = 1000`,
\* `params['resultOffset'] = 0`, then the first query? request
OnProps(b, r) ==
    /\ result_rec_count' = [result_rec_count EXCEPT ![b] =
          IF r.kind = "props_with_count" THEN LayerRecordCount
                                         ELSE DefaultRecordCount]
    /\ result_offset' = [result_offset EXCEPT ![b] = 0]
    /\ stage' = [stage EXCEPT ![b] = "page"]
    /\ page_requests' = [page_requests EXCEPT ![b] = 1]
    /\ NewCall(b)
    /\ UNCHANGED <<task_pc, outcome, features>>

\* the features of one page
PageFeatures(r) == [x \in 1..r.nfeat |-> PageFeature]

\* paginate_arcgis_features after a query? response:
\* `try: features.extend(data['features']) except KeyError: return data`,
\* `try: data['exceededTransferLimit'] == True; params['resultOffset'] += result_rec_count
\*  except: paginating = False`, `return {'features': features}`
OnPage(b, r) ==
    IF r.kind = "no_features_key"
    THEN /\ Finish(b, ReturnedOutcome(b, Dict({"error"}, <<>>)))
         /\ UNCHANGED <<attempts, retry_delay, stage, result_rec_count,
                        result_offset, features, page_requests>>
    ELSE /\ features' = [features EXCEPT ![b] = @ \o PageFeatures(r)]
         /\ IF r.exceeded # "absent"
            THEN /\ result_offset' = [result_offset EXCEPT ![b] = @ + result_rec_count[b]]
                 /\ page_requests' = [page_requests EXCEPT ![b] = @ + 1]
                 /\ NewCall(b)
                 /\ UNCHANGED <<task_pc, outcome>>
            ELSE /\ Finish(b, ReturnedOutcome(b,
                        Dict({"features"}, features[b] \o PageFeatures(r))))
                 /\ UNCHANGED <<attempts, retry_delay, result_offset,
                                page_requests>>
         /\ UNCHANGED <<stage, result_rec_count>>

\* the task of bundle b resumes with the result r of its pending request
TaskRequest(b) ==
    /\ hpc = "gather"
    /\ task_pc[b] = "request"
    /\ \E r \in (IF stage[b] = "props" THEN PropsResponses ELSE PageResponses(b)) :
          /\ log' = [log EXCEPT ![b] = Delivered(@, r,
                        \/ r.kind = "TimeoutError"
                        \/ (r.kind = "ClientError" /\ attempts[b] + 1 = max_attempts))]
          /\ IF r.kind = "ClientError" THEN OnClientError(b)
             ELSE IF r.kind = "TimeoutError" THEN OnOtherException(b, r.kind)
             ELSE IF stage[b] = "props" THEN OnProps(b, r)
             ELSE OnPage(b, r)
    /\ UNCHANGED <<hpc, session, query_responses, body_exception,
                   requester_exception, call_result>>
    /\ UNCHANGED nonQueryVars

\* `await asyncio.sleep(retry_delay); retry_delay *= 2`, then the next attempt
TaskWake(b) ==
    /\ hpc = "gather"
    /\ task_pc[b] = "sleep"
    /\ retry_delay' = [retry_delay EXCEPT ![b] = @ * 2]
    /\ task_pc' = [task_pc EXCEPT ![b] = "request"]
    /\ UNCHANGED <<hpc, session, stage, attempts, result_rec_count,
                   result_offset, features, page_requests, log, outcome,
                   query_responses, body_exception, requester_exception,
                   call_result>>
    /\ UNCHANGED nonQueryVars

\* every task is done: gather returns their results in the order of the
\* bundles and `query_responses = await asyncio.gather(...)` is assigned
GatherDone ==
    /\ hpc = "gather"
    /\ \A b \in BundleIds : task_pc[b] = "done"
    /\ query_responses' = Bound([b \in BundleIds |-> outcome[b]])
    /\ hpc' = "aexit"
    /\ UNCHANGED <<session, task_pc, stage, attempts, retry_delay,
                   result_rec_count, result_offset, features, page_requests,
                   log, outcome, body_exception, requester_exception,
                   call_result>>
    /\ UNCHANGED nonQueryVars

\* the fan-out itself fails before the assignment of query_responses:
\* building the coroutines raises (a bundle that send_query_bundle(*tup)
\* cannot take), or the awaiting coroutine is cancelled with tasks in flight
HarnessFailure ==
    /\ hpc \in {"gather_start", "gather"}
    /\ body_exception' = (IF hpc = "gather_start" THEN "TypeError" ELSE "CancelledError")
    /\ hpc' = "aexit"
    /\ UNCHANGED <<session, task_pc, stage, attempts, retry_delay,
                   result_rec_count, result_offset, features, page_requests,
                   log, outcome, query_responses, requester_exception,
                   call_result>>
    /\ UNCHANGED nonQueryVars

\* __aexit__: records the exception or None, closes the session and
\* returns True, which suppresses the exception
AExit ==
    /\ hpc = "aexit"
    /\ requester_exception' =
          IF body_exception # "none" THEN body_exception ELSE "None"
    /\ session' = "closed"
    /\ hpc' = "return"
    /\ UNCHANGED <<task_pc, stage, attempts, retry_delay, result_rec_count,
                   result_offset, features, page_requests, log, outcome,
                   query_responses, body_exception, call_result>>
    /\ UNCHANGED nonQueryVars

\* `return (query_responses, requester.exception)`: reading a local that was
\* never assigned raises UnboundLocalError
SendReturn ==
    /\ hpc = "return"
    /\ call_result' =
          IF query_responses.bound
          THEN Returned(query_responses.value, requester_exception)
          ELSE Raised("UnboundLocalError")
    /\ hpc' = "done"
    /\ UNCHANGED <<session, task_pc, stage, attempts, retry_delay,
                   result_rec_count, result_offset, features, page_requests,
                   log, outcome, query_responses, body_exception,
                   requester_exception>>
    /\ UNCHANGED nonQueryVars

Tasks == \E b \in BundleIds : TaskRequest(b) \/ TaskWake(b)

QueryNext ==
    \/ AEnter
    \/ GatherStart
    \/ Tasks
    \/ GatherDone
    \/ HarnessFailure
    \/ AExit
    \/ SendReturn

(***************************************************************************)
(* Attribution tuples and directives: utils/project.py                     *)
(***************************************************************************)
\* `for buf_dist in (0,1,3,5)`
RingLevels == <<0, 1, 3, 5>>

AnalysisTypes ==
    {"FEATURE_COUNT", "TOTAL_ACRES", "TOTAL_LENGTH_FT", "ACRES_SUM_FIELDS",
     "LENGTH_FT_SUM_FIELDS", "VALUE_SUM_FIELDS", "ATTR_COUNT_FIELDS",
     "NEAREST_FEATS_FIELDS"}

\* an analysis_types dict: the keys it holds and the tuple of fields under each
NoFields == [t \in AnalysisTypes |-> <<>>]

AnalysisTypesDict(keys, fields) == [keys |-> keys, fields |-> fields]

\* attribute values: None, a string, a number, or an exception record
\* (type(e), formatted traceback)
NoneValue == [kind |-> "None", text |-> "", num |-> 0]

StrValue(text) == [kind |-> "str", text |-> text, num |-> 0]

NumValue(n) == [kind |-> "num", text |-> "", num |-> n]

ExcValue(cls) == [kind |-> "exception", text |-> cls, num |-> 0]

\* the tuples of one per-field block of batch_write_attr_tups
FieldTups(identifier, buf_dist, var_alias, analysis_types, key, suffix, value) ==
    IF key \in analysis_types.keys
    THEN [x \in 1..Len(analysis_types.fields[key]) |->
            <<identifier, buf_dist,
              var_alias \o "_" \o analysis_types.fields[key][x] \o suffix, value>>]
    ELSE <<>>

\* the tuple of one single-attribute block of batch_write_attr_tups
FlagTup(identifier, buf_dist, var_alias, analysis_types, key, suffix, value) ==
    IF key \in analysis_types.keys
    THEN << <<identifier, buf_dist, var_alias \o suffix, value>> >>
    ELSE <<>>

\* batch_write_attr_tups that forgets the grouped and summed field attributes
batch_write_flags_only(identifier, buf_dist, var_alias, analysis_types, value) ==
       FlagTup(identifier, buf_dist, var_alias, analysis_types, "FEATURE_COUNT", "_feat_count", value)
    \o FlagTup(identifier, buf_dist, var_alias, analysis_types, "TOTAL_ACRES", "_total_acres", value)
    \o FlagTup(identifier, buf_dist, var_alias, analysis_types, "TOTAL_LENGTH_FT", "_total_feet", value)

\* batch_write_attr_tups(identifier, buf_dist, var_alias, analysis_types, value)
batch_write_attr_tups(identifier, buf_dist, var_alias, analysis_types, value) ==
       FlagTup(identifier, buf_dist, var_alias, analysis_types, "FEATURE_COUNT", "_feat_count", value)
    \o FlagTup(identifier, buf_dist, var_alias, analysis_types, "TOTAL_ACRES", "_total_acres", value)
    \o FlagTup(identifier, buf_dist, var_alias, analysis_types, "TOTAL_LENGTH_FT", "_total_feet", value)
    \o FieldTups(identifier, buf_dist, var_alias, analysis_types, "ACRES_SUM_FIELDS", "_acres_sum", value)
    \o FieldTups(identifier, buf_dist, var_alias, analysis_types, "LENGTH_FT_SUM_FIELDS", "_feet_sum", value)
    \o FieldTups(identifier, buf_dist, var_alias, analysis_types, "VALUE_SUM_FIELDS", "_value_sum", value)
    \o FieldTups(identifier, buf_dist, var_alias, analysis_types, "ATTR_COUNT_FIELDS", "_attr_count", value)

(***************************************************************************)
(* Response classifier: process/queries.py _handle_query_responses         *)
(***************************************************************************)
\* classes that are subclasses of Exception
ExceptionClasses == {"ClientError", "TimeoutError", "KeyError"}

\* a feature of a response: which geometry encoding it carries, if any
Feature(geometry) == [geometry |-> geometry]

\* arcgis_polygon_features_to_gdf / arcgis_features_to_gdf: one row per
\* feature, geometry type from the encoding
GdfOf(data) ==
    [geom_type |-> IF data.feats[1].geometry = "rings" THEN "polygon"
                   ELSE IF data.feats[1].geometry = "paths" THEN "linestring"
                   ELSE "point",
     nrows |-> Len(data.feats)]

\* a response of the expected structure (identifier, var_alias, data)
Triple(identifier, var_alias, data) ==
    [shape |-> "triple", identifier |-> identifier, var_alias |-> var_alias,
     data |-> data]

\* a response that is itself a reduced exception (type, args)
ReducedException(cls) ==
    [shape |-> "reduced_exception", identifier |-> "", var_alias |-> "",
     data |-> Reduce(cls)]

\* the accumulators _handle_query_responses returns
EmptyAcc ==
    [query_features_dict |-> <<>>,
     results_no_analysis |-> <<>>,
     logger_dict |-> [critical |-> <<>>, error |-> <<>>]]

\* query_features_dict[identifier].append(pair) on a defaultdict(list)
DictAppend(qfd, identifier, pair) ==
    IF \E x \in DOMAIN qfd : qfd[x].identifier = identifier
    THEN [x \in DOMAIN qfd |->
            IF qfd[x].identifier = identifier
            THEN [qfd[x] EXCEPT !.pairs = Append(@, pair)]
            ELSE qfd[x]]
    ELSE Append(qfd, [identifier |-> identifier, pairs |-> <<pair>>])

\* bypass lists that append the proximity tuples in every pass of the loop
BypassListsProximityEveryPass(identifier, var_alias, analysis_types, value) ==
    [x \in DOMAIN RingLevels |->
        batch_write_attr_tups(identifier, RingLevels[x], var_alias, analysis_types, value)
        \o (IF "NEAREST_FEATS_FIELDS" \in analysis_types.keys
            THEN << <<identifier, 0, var_alias \o "_nearest_feats", value>>,
                    <<identifier, 0, var_alias \o "_interior_feats", value>> >>
            ELSE <<>>)]

\* the four lists one bypass branch appends:
\* `for buf_dist in (0,1,3,5): attr_tups = batch_write_attr_tups(...);
\*  if 'NEAREST_FEATS_FIELDS' in analysis_types and buf_dist == 5: attr_tups.append(...) x2;
\*  results_no_analysis.append(attr_tups)`
BypassLists(identifier, var_alias, analysis_types, value) ==
    [x \in DOMAIN RingLevels |->
        batch_write_attr_tups(identifier, RingLevels[x], var_alias, analysis_types, value)
        \o (IF "NEAREST_FEATS_FIELDS" \in analysis_types.keys /\ RingLevels[x] = 5
            THEN << <<identifier, 0, var_alias \o "_nearest_feats", value>>,
                    <<identifier, 0, var_alias \o "_interior_feats", value>> >>
            ELSE <<>>)]

LogEntry(identifier, var_alias, what) ==
    [identifier |-> identifier, var_alias |-> var_alias, what |-> what]

\* the branch that bypasses analysis with a sentinel value and logs an error
Bypass(acc, identifier, var_alias, analysis_types, value, what) ==
    [acc EXCEPT
        !.results_no_analysis = @ \o BypassLists(identifier, var_alias, analysis_types, value),
        !.logger_dict.error = Append(@, LogEntry(identifier, var_alias, what))]

\* a loop body that writes the null bypass lists for a non-empty feature
\* collection as well
HandleResponseBypassingAnalysed(acc, plan, response) ==
    IF response.shape = "reduced_exception"
    THEN [acc EXCEPT !.logger_dict.critical =
                        Append(@, LogEntry("", "", response.data.head))]
    ELSE
    LET identifier == response.identifier
        var_alias == response.var_alias
        data == response.data
        analysis_types == plan[var_alias]
    IN  IF data.tag = "tuple"
        THEN IF data.head \in ExceptionClasses
             THEN Bypass(acc, identifier, var_alias, analysis_types,
                         StrValue("!EXCEPTION!"), "exception_info")
             ELSE acc
        ELSE IF data.keys = {"error"}
        THEN Bypass(acc, identifier, var_alias, analysis_types,
                    StrValue("!QUERYERROR!"), "query_error_info")
        ELSE IF "features" \in data.keys
        THEN IF Len(data.feats) < 1
             THEN [acc EXCEPT !.results_no_analysis =
                      @ \o BypassLists(identifier, var_alias, analysis_types, NoneValue)]
             ELSE IF data.feats[1].geometry # "absent"
                  THEN [acc EXCEPT !.query_features_dict =
                           DictAppend(@, identifier, <<var_alias, GdfOf(data)>>),
                                   !.results_no_analysis =
                           @ \o BypassLists(identifier, var_alias, analysis_types, NoneValue)]
                  ELSE acc
        ELSE Bypass(acc, identifier, var_alias, analysis_types,
                    StrValue("!UNEXPECTED!"), "unexpected_query_response")

\* the body of `for response in query_responses`, lines 176-254
HandleResponse(acc, plan, response) ==
    IF response.shape = "reduced_exception"
    THEN [acc EXCEPT !.logger_dict.critical =
                        Append(@, LogEntry("", "", response.data.head))]
    ELSE
    LET identifier == response.identifier
        var_alias == response.var_alias
        data == response.data
        analysis_types == plan[var_alias]
    IN  IF data.tag = "tuple"
        THEN IF data.head \in ExceptionClasses
             THEN Bypass(acc, identifier, var_alias, analysis_types,
                         StrValue("!EXCEPTION!"), "exception_info")
             ELSE acc
        ELSE IF data.keys = {"error"}
        THEN Bypass(acc, identifier, var_alias, analysis_types,
                    StrValue("!QUERYERROR!"), "query_error_info")
        ELSE IF "features" \in data.keys
        THEN IF Len(data.feats) < 1
             THEN [acc EXCEPT !.results_no_analysis =
                      @ \o BypassLists(identifier, var_alias, analysis_types, NoneValue)]
             ELSE IF data.feats[1].geometry # "absent"
                  THEN [acc EXCEPT !.query_features_dict =
                           DictAppend(@, identifier, <<var_alias, GdfOf(data)>>)]
                  ELSE acc
        ELSE Bypass(acc, identifier, var_alias, analysis_types,
                    StrValue("!UNEXPECTED!"), "unexpected_query_response")

\* _handle_query_responses(query_responses, analysis_plan): the whole loop
RECURSIVE HandleFrom(_, _, _, _)
HandleFrom(acc, plan, resps, j) ==
    IF j > Len(resps) THEN acc
    ELSE HandleFrom(HandleResponse(acc, plan, resps[j]), plan, resps, j + 1)

handle_query_responses(resps, plan) == HandleFrom(EmptyAcc, plan, resps, 1)

\* most responses in the chunk handed to one classifier call
MaxChunk == 2

\* (IrwinID, alias) of the responses of a chunk, in bundle order
ChunkBundles ==
    << <<"fire1", "roads">>, <<"fire1", "parcels">>,
       <<"fire2", "roads">>, <<"fire2", "parcels">> >>

Aliases == {"roads", "parcels"}

\* directives of the analysis plan the model draws from
Directives ==
    { AnalysisTypesDict({"TOTAL_LENGTH_FT"}, NoFields),
      AnalysisTypesDict({"FEATURE_COUNT", "TOTAL_ACRES"}, NoFields),
      AnalysisTypesDict({"TOTAL_LENGTH_FT", "LENGTH_FT_SUM_FIELDS", "NEAREST_FEATS_FIELDS"},
          [NoFields EXCEPT !["LENGTH_FT_SUM_FIELDS"] = <<"class">>,
                           !["NEAREST_FEATS_FIELDS"] = <<"name">>]),
      AnalysisTypesDict({"FEATURE_COUNT", "ACRES_SUM_FIELDS", "VALUE_SUM_FIELDS",
                         "ATTR_COUNT_FIELDS"},
          [NoFields EXCEPT !["ACRES_SUM_FIELDS"] = <<"owner", "zone">>,
                           !["VALUE_SUM_FIELDS"] = <<"pop">>,
                           !["ATTR_COUNT_FIELDS"] = <<"type">>]) }

\* the data a response can carry
DataShapes ==
    { Reduce("ClientError"), Reduce("TimeoutError"),
      Dict({"error"}, <<>>),
      Dict({"error", "details"}, <<>>),
      Dict({}, <<>>),
      Dict({"features"}, <<>>),
      Dict({"features"}, <<Feature("rings")>>),
      Dict({"features"}, <<Feature("paths"), Feature("paths")>>),
      Dict({"features"}, <<Feature("xy")>>),
      Dict({"features"}, <<Feature("absent")>>) }

\* the responses that can stand at position j of a chunk
ResponsesAt(j) ==
    { Triple(ChunkBundles[j][1], ChunkBundles[j][2], d) : d \in DataShapes }
    \cup { ReducedException("TypeError") }

ClassIdle ==
    /\ analysis_plan = <<>>
    /\ chunk = <<>>
    /\ cpc = "idle"
    /\ ci = 0
    /\ query_features_dict = <<>>
    /\ results_no_analysis = <<>>
    /\ logger_dict = [critical |-> <<>>, error |-> <<>>]

ClassInit ==
    /\ analysis_plan \in [Aliases -> Directives]
    /\ \E n \in 1..MaxChunk :
          chunk \in {c \in [1..n -> UNION {ResponsesAt(j) : j \in 1..n}] :
                        \A j \in 1..n : c[j] \in ResponsesAt(j)}
    /\ cpc = "loop"
    /\ ci = 0
    /\ query_features_dict = EmptyAcc.query_features_dict
    /\ results_no_analysis = EmptyAcc.results_no_analysis
    /\ logger_dict = EmptyAcc.logger_dict

\* what the classifier has accumulated so far
Acc ==
    [query_features_dict |-> query_features_dict,
     results_no_analysis |-> results_no_analysis,
     logger_dict |-> logger_dict]

\* one iteration of `for response in query_responses`
ClassifyStep ==
    /\ cpc = "loop"
    /\ ci < Len(chunk)
    /\ LET acc == HandleResponse(Acc, analysis_plan, chunk[ci + 1])
       IN  /\ query_features_dict' = acc.query_features_dict
           /\ results_no_analysis' = acc.results_no_analysis
           /\ logger_dict' = acc.logger_dict
    /\ ci' = ci + 1
    /\ UNCHANGED <<analysis_plan, chunk, cpc>>
    /\ UNCHANGED nonClassVars

\* `return (query_features_dict, results_no_analysis, logger_dict)`
ClassifyReturn ==
    /\ cpc = "loop"
    /\ ci = Len(chunk)
    /\ cpc' = "done"
    /\ UNCHANGED <<analysis_plan, chunk, ci, query_features_dict,
                   results_no_analysis, logger_dict>>
    /\ UNCHANGED nonClassVars

ClassNext == ClassifyStep \/ ClassifyReturn

(***************************************************************************)
(* Work units: process/analysis.py _analyze_poly_var, _analyze_line_var,   *)
(* _analyze_point_var, _nearest_feats_analysis                             *)
(***************************************************************************)
Targets ==
    {"_analyze_poly_var", "_analyze_line_var", "_analyze_point_var",
     "_nearest_feats_analysis"}

\* multiprocessing.Process(target=..., args=process_args)
Process(target, identifier, buf_dist, var_alias, analysis_types) ==
    [target |-> target, identifier |-> identifier, buf_dist |-> buf_dist,
     var_alias |-> var_alias, analysis_types |-> analysis_types]

\* one `if KEY in analysis_types:` block of a try body: the key it tests,
\* the suffix of the names it appends, and whether it loops over fields
Block(key, suffix, per_field) ==
    [key |-> key, suffix |-> suffix, per_field |-> per_field]

\* the blocks of each target's try body, in the order of the code
Blocks(target) ==
    IF target = "_analyze_poly_var"
    THEN << Block("FEATURE_COUNT", "_feat_count", FALSE),
            Block("TOTAL_ACRES", "_total_acres", FALSE),
            Block("ACRES_SUM_FIELDS", "_acres_sum", TRUE),
            Block("VALUE_SUM_FIELDS", "_value_sum", TRUE),
            Block("ATTR_COUNT_FIELDS", "_attr_count", TRUE) >>
    ELSE IF target = "_analyze_line_var"
    THEN << Block("TOTAL_LENGTH_FT", "_total_feet", FALSE),
            Block("LENGTH_FT_SUM_FIELDS", "_feet_sum", TRUE),
            Block("VALUE_SUM_FIELDS", "_value_sum", TRUE),
            Block("ATTR_COUNT_FIELDS", "_attr_count", TRUE) >>
    ELSE IF target = "_analyze_point_var"
    THEN << Block("FEATURE_COUNT", "_feat_count", FALSE),
            Block("VALUE_SUM_FIELDS", "_value_sum", TRUE),
            Block("ATTR_COUNT_FIELDS", "_attr_count", TRUE) >>
    ELSE << Block("NEAREST_FEATS_FIELDS", "_interior_feats", FALSE),
            Block("NEAREST_FEATS_FIELDS", "_nearest_feats", FALSE) >>

\* the value a block computes: a number, or a serialized JSON string
ComputedValue(blk) ==
    IF blk.suffix \in {"_feat_count", "_total_acres", "_total_feet", "_value_sum"}
    THEN NumValue(1)
    ELSE StrValue("json")

\* the other value a block can append: the exception of its inner
\* try/except, or None for a proximity list without features
OtherValue(u) ==
    IF u.target = "_nearest_feats_analysis" THEN NoneValue ELSE ExcValue("KeyError")

\* how many tuples a block appends
BlockSize(u, blk) ==
    IF blk.key \notin u.analysis_types.keys THEN 0
    ELSE IF blk.per_field THEN Len(u.analysis_types.fields[blk.key])
    ELSE 1

\* the tuples one block appends; the tuples at the positions in `other`
\* carry OtherValue
BlockTups(u, blk, other) ==
    [x \in 1..BlockSize(u, blk) |->
        <<u.identifier, u.buf_dist,
          IF blk.per_field
          THEN u.var_alias \o "_" \o u.analysis_types.fields[blk.key][x] \o blk.suffix
          ELSE u.var_alias \o blk.suffix,
          IF x \in other THEN OtherValue(u) ELSE ComputedValue(blk)>>]

\* the attr_tups of the `if len(var_gdf) < 1:` branch
EmptyTups(u) ==
    IF u.target = "_nearest_feats_analysis"
    THEN << <<u.identifier, 0, u.var_alias \o "_nearest_feats", NoneValue>>,
            <<u.identifier, 0, u.var_alias \o "_interior_feats", NoneValue>> >>
    ELSE batch_write_attr_tups(u.identifier, u.buf_dist, u.var_alias,
                               u.analysis_types, NoneValue)

\* an outer handler that writes error values only under the names of the
\* try body's blocks
ExceptTupsOfBlocks(u, cls) ==
    LET RECURSIVE From(_)
        From(b) == IF b > Len(Blocks(u.target)) THEN <<>>
                   ELSE [x \in 1..BlockSize(u, Blocks(u.target)[b]) |->
                            [BlockTups(u, Blocks(u.target)[b], {})[x]
                                EXCEPT ![4] = ExcValue(cls)]] \o From(b + 1)
    IN  From(1)

\* the attr_tups of the outer `except Exception as e:` handler
ExceptTups(u, cls) ==
    IF u.target = "_nearest_feats_analysis"
    THEN << <<u.identifier, 0, u.var_alias \o "_nearest_feats", ExcValue(cls)>>,
            <<u.identifier, 0, u.var_alias \o "_interior_feats", ExcValue(cls)>> >>
    ELSE batch_write_attr_tups(u.identifier, u.buf_dist, u.var_alias,
                               u.analysis_types, ExcValue(cls))

\* the attr_tups of a try body that ran to its put; `all_other` says
\* whether every tuple carries OtherValue or none does
RECURSIVE NormalFrom(_, _, _)
NormalFrom(u, b, all_other) ==
    IF b > Len(Blocks(u.target)) THEN <<>>
    ELSE BlockTups(u, Blocks(u.target)[b],
                   IF all_other THEN 1..BlockSize(u, Blocks(u.target)[b]) ELSE {})
         \o NormalFrom(u, b + 1, all_other)

NormalTups(u, all_other) == NormalFrom(u, 1, all_other)

\* the exception classes a statement of a try body raises in the model
AnalysisExceptionClasses == {"KeyError"}

\* the units the model draws from
Units ==
    { Process(t, "fire1", r, "roads", at) :
        t \in Targets \ {"_nearest_feats_analysis"},
        r \in Range(RingLevels), at \in Directives }
    \cup { Process("_nearest_feats_analysis", "fire1", 0, "roads", at) :
             at \in {a \in Directives : "NEAREST_FEATS_FIELDS" \in a.keys} }

NoUnit == Process("none", "", 0, "", AnalysisTypesDict({}, NoFields))

WorkIdle ==
    /\ unit = NoUnit
    /\ wpc = "idle"
    /\ wb = 0
    /\ attr_tups = <<>>
    /\ channel = <<>>
    /\ raised = FALSE

WorkInit ==
    /\ unit \in Units
    /\ wpc = "try"
    /\ wb = 0
    /\ attr_tups = <<>>
    /\ channel = <<>>
    /\ raised = FALSE

\* an empty branch that puts its list and, lacking the return, goes on into
\* the blocks of the try body
WorkPreprocessWithoutReturn ==
    /\ wpc = "try"
    /\ \E nrows \in 0..1 :
          IF nrows < 1
          THEN /\ attr_tups' = EmptyTups(unit)
               /\ channel' = Append(channel, attr_tups')
               /\ wpc' = "blocks"
               /\ wb' = 1
          ELSE /\ attr_tups' = <<>>
               /\ wb' = 1
               /\ wpc' = "blocks"
               /\ channel' = channel
    /\ UNCHANGED <<unit, raised>>
    /\ UNCHANGED nonWorkVars

\* the preprocessing and the `if len(var_gdf) < 1:` test that open the try body
WorkPreprocess ==
    /\ wpc = "try"
    /\ \E nrows \in 0..1 :
          IF nrows < 1
          THEN /\ attr_tups' = EmptyTups(unit)
               /\ channel' = Append(channel, attr_tups')
               /\ wpc' = "done"
               /\ wb' = wb
          ELSE /\ attr_tups' = <<>>
               /\ wb' = 1
               /\ wpc' = "blocks"
               /\ channel' = channel
    /\ UNCHANGED <<unit, raised>>
    /\ UNCHANGED nonWorkVars

\* one attribute block of the try body
WorkBlock ==
    /\ wpc = "blocks"
    /\ wb <= Len(Blocks(unit.target))
    /\ \E other \in SUBSET (1..BlockSize(unit, Blocks(unit.target)[wb])) :
          attr_tups' = attr_tups \o BlockTups(unit, Blocks(unit.target)[wb], other)
    /\ wb' = wb + 1
    /\ UNCHANGED <<unit, wpc, channel, raised>>
    /\ UNCHANGED nonWorkVars

\* `manager_queue.put(attr_tups)` that ends the try body
WorkPut ==
    /\ wpc = "blocks"
    /\ wb > Len(Blocks(unit.target))
    /\ channel' = Append(channel, attr_tups)
    /\ wpc' = "done"
    /\ UNCHANGED <<unit, wb, attr_tups, raised>>
    /\ UNCHANGED nonWorkVars

\* a statement of the try body ahead of its put raises, and the outer
\* handler runs: `attr_tups = ...; manager_queue.put(attr_tups)`
WorkExcept ==
    /\ \/ wpc = "try"
       \/ wpc = "blocks" /\ wb <= Len(Blocks(unit.target))
    /\ \E cls \in AnalysisExceptionClasses :
          /\ attr_tups' = ExceptTups(unit, cls)
          /\ channel' = Append(channel, attr_tups')
    /\ raised' = TRUE
    /\ wpc' = "done"
    /\ UNCHANGED <<unit, wb>>
    /\ UNCHANGED nonWorkVars

WorkNext == WorkPreprocess \/ WorkBlock \/ WorkPut \/ WorkExcept

(***************************************************************************)
(* A run: main.py from the query responses to the merged tuple list, with  *)
(* gather_analysis_pairs, gather_processes, _process_gdf_pair and          *)
(* parse_analysis_errors of process/analysis.py                            *)
(***************************************************************************)
\* gather_analysis_pairs: one (identifier, var_alias, var_gdf) per entry of
\* query_features_dict, fires in insertion order
RECURSIVE PairsFrom(_, _)
PairsFrom(qfd, x) ==
    IF x > Len(qfd) THEN <<>>
    ELSE [y \in DOMAIN qfd[x].pairs |->
            [identifier |-> qfd[x].identifier,
             var_alias |-> qfd[x].pairs[y][1],
             var_gdf |-> qfd[x].pairs[y][2]]]
         \o PairsFrom(qfd, x + 1)

gather_analysis_pairs(qfd) == PairsFrom(qfd, 1)

\* the analyzer _process_gdf_pair selects from the geometry type
TargetOf(var_gdf) ==
    IF var_gdf.geom_type = "polygon" THEN "_analyze_poly_var"
    ELSE IF var_gdf.geom_type = "linestring" THEN "_analyze_line_var"
    ELSE "_analyze_point_var"

\* a _process_gdf_pair that creates the proximity process for every pair
process_gdf_pair_with_proximity(pair, plan) ==
    LET analysis_types == plan[pair.var_alias]
    IN  << Process("_nearest_feats_analysis", pair.identifier, 0,
                   pair.var_alias, analysis_types) >>
        \o [x \in DOMAIN RingLevels |->
              Process(TargetOf(pair.var_gdf), pair.identifier, RingLevels[x],
                      pair.var_alias, analysis_types)]

\* _process_gdf_pair: the proximity process when the directive asks for it,
\* then one process per row of fire_buf_gdf
process_gdf_pair(pair, plan) ==
    LET analysis_types == plan[pair.var_alias]
    IN  (IF "NEAREST_FEATS_FIELDS" \in analysis_types.keys
         THEN << Process("_nearest_feats_analysis", pair.identifier, 0,
                         pair.var_alias, analysis_types) >>
         ELSE <<>>)
        \o [x \in DOMAIN RingLevels |->
              Process(TargetOf(pair.var_gdf), pair.identifier, RingLevels[x],
                      pair.var_alias, analysis_types)]

\* gather_processes: itertools.chain over the pairs' processes
RECURSIVE gather_processes(_, _)
gather_processes(pairs, plan) ==
    IF pairs = <<>> THEN <<>>
    ELSE process_gdf_pair(Head(pairs), plan) \o gather_processes(Tail(pairs), plan)

\* what a process can put on the channel: the list of its empty branch, of
\* its try body, or of its outer handler
WorkerOutcomes(u) ==
    {EmptyTups(u), NormalTups(u, FALSE), NormalTups(u, TRUE)}
    \cup {ExceptTups(u, cls) : cls \in AnalysisExceptionClasses}

\* a parse that looks at the first tuple of every list only
parse_analysis_errors_first_tuple(lists) ==
    [x \in DOMAIN lists |->
        [y \in DOMAIN lists[x] |->
            IF y = 1 /\ lists[x][y][4].kind = "exception"
            THEN <<lists[x][y][1], lists[x][y][2], lists[x][y][3],
                   StrValue("!ANALYSISERROR!")>>
            ELSE lists[x][y]]]

\* parse_analysis_errors: a tuple whose value is (exception type, text) gets
\* the value '!ANALYSISERROR!'
parse_analysis_errors(lists) ==
    [x \in DOMAIN lists |->
        [y \in DOMAIN lists[x] |->
            IF lists[x][y][4].kind = "exception"
            THEN <<lists[x][y][1], lists[x][y][2], lists[x][y][3],
                   StrValue("!ANALYSISERROR!")>>
            ELSE lists[x][y]]]

\* itertools.chain(*results): the tuples of the lists, in order
RECURSIVE Chain(_)
Chain(lists) == IF lists = <<>> THEN <<>> ELSE Head(lists) \o Chain(Tail(lists))

\* the sorted order of a set of labels: one fixed order of the set, whatever
\* order the labels came in
RECURSIVE SortedLabels(_)
SortedLabels(labels) ==
    IF labels = {} THEN <<>>
    ELSE LET first == CHOOSE lb \in labels : TRUE
         IN  <<first>> \o SortedLabels(labels \ {first})

\* the cell of a table that no row fills
NaNValue == [kind |-> "NaN", text |-> "", num |-> 0]

\* a DataFrame of pd.pivot, or the ValueError it raises
Table(index, columns, cells) ==
    [raised |-> FALSE, index |-> index, columns |-> columns, cells |-> cells]

RaisedTable == [raised |-> TRUE, index |-> <<>>, columns |-> <<>>, cells |-> <<>>]

NoTable == Table(<<>>, <<>>, <<>>)

\* the cells of the rows: attrVal at ((buf_dist, IrwinID), attrName), NaN
\* where no row stands
CellsOf(rows) ==
    [c \in {<<rows[x][2], rows[x][1]>> : x \in DOMAIN rows}
            \X {rows[x][3] : x \in DOMAIN rows} |->
        IF \E x \in DOMAIN rows : <<rows[x][2], rows[x][1]>> = c[1] /\ rows[x][3] = c[2]
        THEN rows[CHOOSE x \in DOMAIN rows :
                    <<rows[x][2], rows[x][1]>> = c[1] /\ rows[x][3] = c[2]][4]
        ELSE NaNValue]

\* the labels of the rows in the order of their first appearance
RECURSIVE FirstAppearances(_)
FirstAppearances(labels) ==
    IF labels = <<>> THEN <<>>
    ELSE LET before == FirstAppearances(SubSeq(labels, 1, Len(labels) - 1))
         IN  IF labels[Len(labels)] \in Range(before) THEN before
             ELSE Append(before, labels[Len(labels)])

\* a pivot that leaves index and columns in the order the rows came in
pivot_unsorted(rows) ==
    IF \E x \in DOMAIN rows, y \in DOMAIN rows :
          x # y /\ rows[x][1] = rows[y][1] /\ rows[x][2] = rows[y][2] /\ rows[x][3] = rows[y][3]
    THEN RaisedTable
    ELSE Table(FirstAppearances([x \in DOMAIN rows |-> <<rows[x][2], rows[x][1]>>]),
               FirstAppearances([x \in DOMAIN rows |-> rows[x][3]]),
               CellsOf(rows))

\* pd.pivot(data, columns='attrName', index=['buf_dist', 'IrwinID'],
\* values='attrVal'): ValueError for two rows of one index entry and column,
\* else sorted index, sorted columns and the cells
pivot(rows) ==
    IF \E x \in DOMAIN rows, y \in DOMAIN rows :
          x # y /\ rows[x][1] = rows[y][1] /\ rows[x][2] = rows[y][2] /\ rows[x][3] = rows[y][3]
    THEN RaisedTable
    ELSE Table(SortedLabels({<<rows[x][2], rows[x][1]>> : x \in DOMAIN rows}),
               SortedLabels({rows[x][3] : x \in DOMAIN rows}),
               CellsOf(rows))

\* create_attribute_dataframe(results)
create_attribute_dataframe(lists) == pivot(Chain(lists))

\* the (IrwinID, alias) bundles a run queries
RunBundles == << <<"fire1", "roads">>, <<"fire1", "parcels">> >>

\* the directive of the run's second dataset
SecondDirective == AnalysisTypesDict({"TOTAL_LENGTH_FT"}, NoFields)

\* what the run's second bundle comes back as: an Exception object that
\* asyncio.gather returned in its place, or an error payload
SecondResponses ==
    { ReducedException("TypeError"),
      Triple(RunBundles[2][1], RunBundles[2][2], Dict({"error"}, <<>>)) }

\* main.py 160-162: the Exception objects among query_responses are
\* reduced and moved behind the other responses
reduce_exceptions(resps) ==
    SelectSeq(resps, LAMBDA r : r.shape # "reduced_exception")
    \o SelectSeq(resps, LAMBDA r : r.shape = "reduced_exception")

\* a `critical` flag that no message sets
CriticalNever(ld) == FALSE

\* main.py 193-203: `critical = True` for any message of level critical
Critical(ld) == ld.critical # <<>>

RunIdle ==
    /\ rpc = "idle"
    /\ all_processes = <<>>
    /\ ran = {}
    /\ results = <<>>
    /\ edits_sent = FALSE
    /\ attribute_dataframe = NoTable

\* main.py after send_all_queries returned query_responses
RunInit ==
    /\ analysis_plan \in {pl \in [Aliases -> Directives] :
                            pl[RunBundles[2][2]] = SecondDirective}
    /\ chunk \in {c \in [DOMAIN RunBundles -> ResponsesAt(1) \cup SecondResponses] :
                    c[1] \in ResponsesAt(1) /\ c[2] \in SecondResponses}
    /\ cpc = "idle"
    /\ ci = 0
    /\ query_features_dict = <<>>
    /\ results_no_analysis = <<>>
    /\ logger_dict = [critical |-> <<>>, error |-> <<>>]
    /\ rpc = "classify"
    /\ all_processes = <<>>
    /\ ran = {}
    /\ results = <<>>
    /\ edits_sent = FALSE
    /\ attribute_dataframe = NoTable

\* main.py 160-203: reduce the Exception objects, classify the responses;
\* `if critical: sys.exit(1)`
RunClassify ==
    /\ rpc = "classify"
    /\ LET acc == handle_query_responses(reduce_exceptions(chunk), analysis_plan)
       IN  /\ query_features_dict' = acc.query_features_dict
           /\ results_no_analysis' = acc.results_no_analysis
           /\ logger_dict' = acc.logger_dict
           /\ rpc' = IF Critical(acc.logger_dict) THEN "exit1" ELSE "gather"
    /\ UNCHANGED <<analysis_plan, chunk, cpc, ci, all_processes, ran, results,
                   edits_sent, attribute_dataframe>>
    /\ UNCHANGED nonRunVars

\* main.py 211-215: gather_analysis_pairs, gather_processes
RunGatherProcesses ==
    /\ rpc = "gather"
    /\ all_processes' = gather_processes(gather_analysis_pairs(query_features_dict),
                                         analysis_plan)
    /\ rpc' = "analysis"
    /\ UNCHANGED <<ran, results, edits_sent, attribute_dataframe>>
    /\ UNCHANGED classVars
    /\ UNCHANGED nonRunVars

\* main.py 219, gather_results: the list one more process put arrives,
\* in any order of the processes
RunCollect ==
    /\ rpc = "analysis"
    /\ \E x \in DOMAIN all_processes \ ran :
          /\ \E attr_list \in WorkerOutcomes(all_processes[x]) :
                results' = Append(results, attr_list)
          /\ ran' = ran \cup {x}
    /\ UNCHANGED <<rpc, all_processes, edits_sent, attribute_dataframe>>
    /\ UNCHANGED classVars
    /\ UNCHANGED nonRunVars

\* main.py 234-238: `results = parse_analysis_errors(results);
\* results.extend(results_no_analysis);
\* attribute_dataframe = create_attribute_dataframe(results)`
RunMerge ==
    /\ rpc = "analysis"
    /\ ran = DOMAIN all_processes
    /\ results' = parse_analysis_errors(results) \o results_no_analysis
    /\ attribute_dataframe' = create_attribute_dataframe(results')
    /\ rpc' = IF attribute_dataframe'.raised THEN "crashed" ELSE "done"
    /\ UNCHANGED <<all_processes, ran, edits_sent>>
    /\ UNCHANGED classVars
    /\ UNCHANGED nonRunVars

\* main.py 238-270: the merged tuples are pivoted, joined and sent to the
\* output service with apply_edits_to_dof_var_service
RunApplyEdits ==
    /\ rpc = "done"
    /\ edits_sent' = TRUE
    /\ rpc' = "finished"
    /\ UNCHANGED <<all_processes, ran, results, attribute_dataframe>>
    /\ UNCHANGED classVars
    /\ UNCHANGED nonRunVars

RunNext ==
    RunClassify \/ RunGatherProcesses \/ RunCollect \/ RunMerge \/ RunApplyEdits

(***************************************************************************)
(* Transport: utils/arcgis_helpers.py arcgis_rest_api_get and              *)
(* arcgis_rest_api_post, one call                                          *)
(***************************************************************************)
\* the calls the model draws from: the method, whether an operation is
\* appended to the url, and is_raw
RequestArgs ==
    [method : {"get", "post"}, operation : {"None", "query?", "applyEdits"},
     is_raw : BOOLEAN]

\* what one _get_request / _post_request can come back with: a response
\* body, or an exception (raise_for_status raises a ClientError subclass)
RequestOutcomes ==
    {"body_a", "body_b", "ClientError", "ClientResponseError", "TimeoutError"}

\* classes that `except aiohttp.ClientError` catches
ClientErrors == {"ClientError", "ClientResponseError"}

\* `url = f'{base_url}/{operation}' if operation else base_url`
UrlOf(args) ==
    IF args.operation = "None" THEN "base_url"
    ELSE "base_url" \o "/" \o args.operation

\* `return await response.read() if is_raw else await response.json()`
BodyOf(args, outcome_kind) ==
    [url |-> UrlOf(args), raw |-> args.is_raw, body |-> outcome_kind]

NoResult == [kind |-> "pending", value |-> BodyOf([operation |-> "None", is_raw |-> FALSE], "none")]

ReturnValue(v) == [kind |-> "returned", value |-> v]

RaiseValue(cls) ==
    [kind |-> "raised", value |-> BodyOf([operation |-> "None", is_raw |-> FALSE], cls)]

\* a retry whose delay stays the same
NextDelaySame(delay) == delay

\* `retry_delay *= 2`
NextDelay(delay) == delay * 2

TransportIdle ==
    /\ request_args = [method |-> "none", operation |-> "None", is_raw |-> FALSE]
    /\ tpc = "idle"
    /\ call_attempts = 0
    /\ call_retry_delay = 0
    /\ delivered = <<>>
    /\ sleeps = <<>>
    /\ transport_result = NoResult

\* `retry_delay = 1; attempts, max_attempts = 0, 3`
TransportInit ==
    /\ request_args \in RequestArgs
    /\ tpc = "request"
    /\ call_attempts = 0
    /\ call_retry_delay = 1
    /\ delivered = <<>>
    /\ sleeps = <<>>
    /\ transport_result = NoResult

\* one pass of `while attempts < max_attempts`: the request is issued and
\* comes back; `return await ...`, or `except aiohttp.ClientError:
\* attempts += 1; if attempts == max_attempts: raise;
\* await asyncio.sleep(retry_delay)`, or another exception leaves the call
TransportRequest ==
    /\ tpc = "request"
    /\ call_attempts < max_attempts
    /\ \E o \in RequestOutcomes :
          /\ delivered' = Append(delivered, o)
          /\ IF o \in ClientErrors
             THEN /\ call_attempts' = call_attempts + 1
                  /\ IF call_attempts + 1 = max_attempts
                     THEN /\ transport_result' = RaiseValue(o)
                          /\ tpc' = "raised"
                          /\ sleeps' = sleeps
                     ELSE /\ sleeps' = Append(sleeps, call_retry_delay)
                          /\ tpc' = "sleep"
                          /\ transport_result' = transport_result
             ELSE /\ transport_result' =
                        IF o = "TimeoutError" THEN RaiseValue(o)
                        ELSE ReturnValue(BodyOf(request_args, o))
                  /\ tpc' = IF o = "TimeoutError" THEN "raised" ELSE "returned"
                  /\ UNCHANGED <<call_attempts, sleeps>>
    /\ UNCHANGED <<request_args, call_retry_delay>>
    /\ UNCHANGED nonTransportVars

\* the sleep is over: `retry_delay *= 2` and the loop goes round
TransportWake ==
    /\ tpc = "sleep"
    /\ call_retry_delay' = NextDelay(call_retry_delay)
    /\ tpc' = "request"
    /\ UNCHANGED <<request_args, call_attempts, delivered, sleeps,
                   transport_result>>
    /\ UNCHANGED nonTransportVars

TransportNext == TransportRequest \/ TransportWake

(***************************************************************************)
(* Pagination: utils/arcgis_helpers.py paginate_arcgis_features, one call, *)
(* each arcgis_rest_api_get taken as one step that returns or raises       *)
(***************************************************************************)
\* a parsed payload: its keys other than 'exceededTransferLimit', its
\* features list when it has one, and its exceededTransferLimit
\* ("absent" when it lacks the key)
Payload(keys, feats, exceeded) ==
    [keys |-> keys, feats |-> feats, exceeded |-> exceeded]

\* most features a page of the model holds
MaxPageFeatures == 2

\* features are told apart by the offset of their page and their place in it
FeaturesAt(off, n) == [x \in 1..n |-> off + x]

\* what a query? request at offset `off` can come back with; the source
\* sends exceededTransferLimit only while the model's page bound allows a
\* further request
PagePayloads(off, requested) ==
    { Payload({"features"}, FeaturesAt(off, n), "absent") : n \in 0..MaxPageFeatures }
    \cup { Payload({"error"}, <<>>, "absent"), Payload({}, <<>>, "absent") }
    \cup (IF requested < MaxPages
          THEN { Payload({"features"}, FeaturesAt(off, n), e) :
                    n \in 1..MaxPageFeatures, e \in {"true", "false"} }
               \cup { Payload({"error"}, <<>>, "true") }
          ELSE {})

NoPageResult == [kind |-> "pending", data |-> Payload({}, <<>>, "absent"), exception |-> "none"]

PageReturn(data) == [kind |-> "returned", data |-> data, exception |-> "none"]

PageRaise(cls) == [kind |-> "raised", data |-> Payload({}, <<>>, "absent"), exception |-> cls]

\* `try: result_rec_count = props['maxRecordCount'] except KeyError: result_rec_count = 1000`
RecCountOf(has_count) ==
    IF has_count THEN LayerRecordCount ELSE DefaultRecordCount

\* an offset that advances by one record
NextOffsetByOne(off, n) == off + 1

\* `params['resultOffset'] += result_rec_count`
NextOffset(off, n) == off + n

\* `try: data['exceededTransferLimit'] == True ... except: paginating = False`:
\* the comparison is evaluated and dropped; only a missing key raises
Paginating(data) == data.exceeded # "absent"

PageIdle ==
    /\ ppc = "idle"
    /\ rec_count = 0
    /\ offset = 0
    /\ page_features = <<>>
    /\ pages = <<>>
    /\ offsets = <<>>
    /\ props_had_count = FALSE
    /\ page_result = NoPageResult

PageInit ==
    /\ ppc = "props"
    /\ rec_count = 0
    /\ offset = 0
    /\ page_features = <<>>
    /\ pages = <<>>
    /\ offsets = <<>>
    /\ props_had_count = FALSE
    /\ page_result = NoPageResult

\* lines 155-178: the layer-info request returns or raises; the page size
\* is read, `params['resultOffset'] = 0`, `features = []`, and the first
\* query? request is issued
PageProps ==
    /\ ppc = "props"
    /\ \E o \in {"maxRecordCount", "no_maxRecordCount", "ClientError", "TimeoutError"} :
          IF o \in {"ClientError", "TimeoutError"}
          THEN /\ page_result' = PageRaise(o)
               /\ ppc' = "raised"
               /\ UNCHANGED <<rec_count, offset, page_features, offsets,
                              props_had_count>>
          ELSE /\ props_had_count' = (o = "maxRecordCount")
               /\ rec_count' = RecCountOf(o = "maxRecordCount")
               /\ offset' = 0
               /\ page_features' = <<>>
               /\ offsets' = <<0>>
               /\ ppc' = "page"
               /\ page_result' = page_result
    /\ UNCHANGED pages
    /\ UNCHANGED nonPageVars

\* lines 178-192: a query? request returns data; `features.extend(data['features'])`
\* or `return data`; then the offset advances and the next request is
\* issued, or `return {'features': features}`
PageData ==
    /\ ppc = "page"
    /\ \E data \in PagePayloads(offset, Len(offsets)) :
          /\ pages' = Append(pages, data)
          /\ IF "features" \notin data.keys
             THEN /\ page_result' = PageReturn(data)
                  /\ ppc' = "returned"
                  /\ UNCHANGED <<offset, page_features, offsets>>
             ELSE /\ page_features' = page_features \o data.feats
                  /\ IF Paginating(data)
                     THEN /\ offset' = NextOffset(offset, rec_count)
                          /\ offsets' = Append(offsets, offset')
                          /\ UNCHANGED <<ppc, page_result>>
                     ELSE /\ page_result' =
                                PageReturn(Payload({"features"}, page_features', "absent"))
                          /\ ppc' = "returned"
                          /\ UNCHANGED <<offset, offsets>>
    /\ UNCHANGED <<rec_count, props_had_count>>
    /\ UNCHANGED nonPageVars

\* line 178: arcgis_rest_api_get raises out of the pagination loop
PageRequestRaises ==
    /\ ppc = "page"
    /\ \E cls \in {"ClientError", "TimeoutError"} : page_result' = PageRaise(cls)
    /\ ppc' = "raised"
    /\ UNCHANGED <<rec_count, offset, page_features, pages, offsets,
                   props_had_count>>
    /\ UNCHANGED nonPageVars

PageNext == PageProps \/ PageData \/ PageRequestRaises

(***************************************************************************)
(* Serializer: process/analysis.py _trim_nearest_feats                     *)
(***************************************************************************)
\* the literal 5000 of `len(...) <= 5000`
NearestFeatsBudget == 5000

\* budgets to compare the search under: the code's, one below, one above
Budgets == {2600, NearestFeatsBudget, 7700}

\* most features of a feature set of the model
MaxFeats == 3

\* a feature: its dist_mi in hundredths of a mile, and the length of its
\* own JSON text (which depends on the included fields)
Feat(dist_mi, size) == [dist_mi |-> dist_mi, size |-> size]

\* the lengths a feature's JSON text takes in the model
FeatureSizes == {1200, 2400, 5200}

\* the dist_mi values (hundredths of a mile) of the model: 0.0, 0.5, 12.25
Distances == {0, 50, 1225}

\* a feature set or a parsed serialization of one
FSet(feats, popped, cutoff) ==
    [features |-> feats, popped |-> popped, cutoff |-> cutoff]

\* number of decimal digits of a natural number
RECURSIVE Digits(_)
Digits(n) == IF n < 10 THEN 1 ELSE 1 + Digits(n \div 10)

\* length of the text json.dumps writes for a value: null, or a float
\* rounded to two decimals (python writes 0.5, 12.25, 3.0)
ValueLen(v) ==
    IF v.kind = "None" THEN 4
    ELSE Digits(v.num \div 100) + 1 + (IF v.num % 10 = 0 THEN 1 ELSE 2)

RECURSIVE SumSizes(_)
SumSizes(feats) ==
    IF feats = <<>> THEN 0 ELSE Head(feats).size + SumSizes(Tail(feats))

\* len(json.dumps({'features': [...], 'popped': p, 'cutoff': c})):
\* `{"features": [` + the features joined by `, ` + `], "popped": ` + p +
\* `, "cutoff": ` + c + `}`
JsonLen(fs) ==
    14 + SumSizes(fs.features)
       + (IF Len(fs.features) > 1 THEN 2 * (Len(fs.features) - 1) ELSE 0)
       + 13 + Digits(fs.popped) + 12 + ValueLen(fs.cutoff) + 1

\* python's seq[idx] for idx >= -len(seq): a negative index counts from the end
PyIndex(seq, idx) == IF idx < 0 THEN seq[Len(seq) + idx + 1] ELSE seq[idx + 1]

\* test_dict of the search: `features[:mid]`, `(len(features) - mid) + popped_base`,
\* `features[mid - 1]['dist_mi'] if mid < len(features) else cutoff_base`
TestDict(fs, mid) ==
    FSet(SubSeq(fs.features, 1, mid),
         (Len(fs.features) - mid) + fs.popped,
         IF mid < Len(fs.features)
         THEN NumValue(PyIndex(fs.features, mid - 1).dist_mi)
         ELSE fs.cutoff)

\* a search state: low, high and best_serialized
SearchState(lo, hi, best) == [low |-> lo, high |-> hi, best |-> best]

\* a pass that keeps the candidate whether or not it fits
SearchStepKeepsOversized(fs, max_length, st) ==
    LET mid == (st.low + st.high) \div 2
    IN  SearchState(mid + 1, st.high, Bound(TestDict(fs, mid)))

\* a pass that narrows from above after a candidate that fits
SearchStepNarrowsOnFit(fs, max_length, st) ==
    LET mid == (st.low + st.high) \div 2
        test_dict == TestDict(fs, mid)
    IN  IF JsonLen(test_dict) <= max_length
        THEN SearchState(st.low, mid, Bound(test_dict))
        ELSE SearchState(st.low, mid, st.best)

\* a pass that keeps the candidates that do not fit
SearchStepKeepsUnfit(fs, max_length, st) ==
    LET mid == (st.low + st.high) \div 2
        test_dict == TestDict(fs, mid)
    IN  IF JsonLen(test_dict) > max_length
        THEN SearchState(mid + 1, st.high, Bound(test_dict))
        ELSE SearchState(st.low, mid, st.best)

\* one pass of `while low < high`
SearchStep(fs, max_length, st) ==
    LET mid == (st.low + st.high) \div 2
        test_dict == TestDict(fs, mid)
    IN  IF JsonLen(test_dict) <= max_length
        THEN SearchState(mid + 1, st.high, Bound(test_dict))
        ELSE SearchState(st.low, mid, st.best)

\* the whole loop
RECURSIVE Search(_, _, _)
Search(fs, max_length, st) ==
    IF st.low < st.high THEN Search(fs, max_length, SearchStep(fs, max_length, st))
    ELSE st

\* _trim_nearest_feats with the budget as an argument: the parsed
\* serialization it returns, or unbound when `return best_serialized`
\* would read an unassigned local
trim_nearest_feats(fs, max_length) ==
    IF JsonLen(fs) <= max_length THEN Bound(fs)
    ELSE Search(fs, max_length, SearchState(0, Len(fs.features), Unbound)).best

\* feature lists sorted by dist_mi ascending, as sort_values leaves them
FeatureLists ==
    UNION { {fl \in [1..n -> {Feat(dm, sz) : dm \in Distances, sz \in FeatureSizes}] :
                \A x \in 1..(n - 1) : fl[x].dist_mi <= fl[x + 1].dist_mi} :
            n \in 1..MaxFeats }

\* the feature sets _nearest_feats_analysis builds: popped features only
\* come with a cutoff, which is the dist_mi of the last feature
FeatureSets ==
    { FSet(fl, 0, NoneValue) : fl \in FeatureLists }
    \cup { FSet(fl, 12, NumValue(fl[Len(fl)].dist_mi)) : fl \in FeatureLists }

TrimIdle ==
    /\ nearest_feats_fset = FSet(<<>>, 0, NoneValue)
    /\ trim_pc = "idle"
    /\ low = 0
    /\ high = 0
    /\ best_serialized = Unbound
    /\ trim_result = Unbound

TrimInit ==
    /\ nearest_feats_fset \in FeatureSets
    /\ trim_pc = "start"
    /\ low = 0
    /\ high = 0
    /\ best_serialized = Unbound
    /\ trim_result = Unbound

\* lines 517-528: return the full serialization if it fits, else set up the search
TrimBegin ==
    /\ trim_pc = "start"
    /\ IF JsonLen(nearest_feats_fset) <= NearestFeatsBudget
       THEN /\ trim_result' = Bound(nearest_feats_fset)
            /\ trim_pc' = "returned"
            /\ UNCHANGED <<low, high>>
       ELSE /\ low' = 0
            /\ high' = Len(nearest_feats_fset.features)
            /\ trim_pc' = "search"
            /\ UNCHANGED trim_result
    /\ UNCHANGED <<nearest_feats_fset, best_serialized>>
    /\ UNCHANGED nonTrimVars

\* lines 531-552: one pass of `while low < high`
TrimSearch ==
    /\ trim_pc = "search"
    /\ low < high
    /\ LET st == SearchStep(nearest_feats_fset, NearestFeatsBudget,
                            SearchState(low, high, best_serialized))
       IN  /\ low' = st.low
           /\ high' = st.high
           /\ best_serialized' = st.best
    /\ UNCHANGED <<nearest_feats_fset, trim_pc, trim_result>>
    /\ UNCHANGED nonTrimVars

\* line 554: `return best_serialized`
TrimReturn ==
    /\ trim_pc = "search"
    /\ low >= high
    /\ trim_result' = best_serialized
    /\ trim_pc' = IF best_serialized.bound THEN "returned" ELSE "raised"
    /\ UNCHANGED <<nearest_feats_fset, low, high, best_serialized>>
    /\ UNCHANGED nonTrimVars

TrimNext == TrimBegin \/ TrimSearch \/ TrimReturn

(***************************************************************************)
(* Proximity: process/analysis.py _nearest_feats_analysis, for one bundle  *)
(* whose directive requests nearest features, after its classification     *)
(***************************************************************************)
\* most candidate features of a unit of the model
MaxCandidates == 2

\* the 50 of `interior_var_prox_df[:50]` and `nearest_var_prox_df[:50]`
FeatCap == 50

\* a row of var_gdf: whether it intersects the fire, its distance to the
\* fire's edge in hundredths of a mile, the length of its feature's JSON text
Row(interior, dist_mi, size) ==
    [interior |-> interior, dist_mi |-> dist_mi, size |-> size]

Rows == {Row(inside, dm, sz) : inside \in BOOLEAN, dm \in Distances, sz \in FeatureSizes}

\* how far past the cap of 50 a group of the model goes
MaxOver == 2

\* the sizes of a group of many rows
GroupSizes == {0, FeatCap} \cup {FeatCap + over : over \in 1..MaxOver}

\* var_gdf of ni interior and nn other rows, in ascending or descending
\* order of distance, all distances different
ManyRows(ni, nn, ascending) ==
    [x \in 1..(ni + nn) |->
        Row(x <= ni, IF ascending THEN 3 * x ELSE 3 * (ni + nn + 1 - x), 1200)]

VarGdfs ==
    UNION {[1..n -> Rows] : n \in 0..MaxCandidates}
    \cup { ManyRows(ni, nn, ascending) :
              ni \in GroupSizes, nn \in GroupSizes, ascending \in BOOLEAN }

\* before either group is built
NoFSets == [interior |-> FSet(<<>>, 0, NoneValue), nearest |-> FSet(<<>>, 0, NoneValue)]

\* a serialized feature set as an attribute value
JsonValue(fs) == [kind |-> "json", text |-> "", num |-> 0, fset |-> fs]

\* the ascending order of rows whose distances all differ: a row stands
\* behind as many rows as have a smaller distance
SortRows(rows) ==
    [p \in 1..Len(rows) |->
        CHOOSE r \in Range(rows) :
            Cardinality({q \in Range(rows) : q.dist_mi < r.dist_mi}) = p - 1]

\* the orders sort_values(by=..., ascending=True) can leave rows in: one
\* when all distances differ, else any order of the rows of one distance
SortedArrangements(rows) ==
    IF \A x \in DOMAIN rows, y \in DOMAIN rows : x # y => rows[x].dist_mi # rows[y].dist_mi
    THEN {SortRows(rows)}
    ELSE
    { s \in [1..Len(rows) -> Range(rows)] :
        /\ \A x \in 1..(Len(rows) - 1) : s[x].dist_mi <= s[x + 1].dist_mi
        /\ \A r \in Range(rows) :
              Cardinality({x \in 1..Len(rows) : s[x] = r})
                = Cardinality({x \in 1..Len(rows) : rows[x] = r}) }

\* a feature set that keeps the farthest rows
FSetOfFarthest(sorted) ==
    LET kept == SubSeq(sorted, Len(sorted) - Min(Len(sorted), FeatCap) + 1, Len(sorted))
        popped == Len(sorted) - Len(kept)
    IN  FSet([x \in 1..Len(kept) |-> Feat(kept[x].dist_mi, kept[x].size)],
             popped,
             IF popped > 0 THEN NumValue(kept[Len(kept)].dist_mi) ELSE NoneValue)

\* the feature set built of sorted rows: at most 50 features, the number of
\* rows cut off, and the last kept distance when rows were cut off
FSetOf(sorted) ==
    LET kept == SubSeq(sorted, 1, Min(Len(sorted), FeatCap))
        popped == Len(sorted) - Len(kept)
    IN  FSet([x \in 1..Len(kept) |-> Feat(kept[x].dist_mi, kept[x].size)],
             popped,
             IF popped > 0 THEN NumValue(kept[Len(kept)].dist_mi) ELSE NoneValue)

\* the value of a feats tuple: `if feats: ... _trim_nearest_feats(fset) ... else: None`
FeatsValue(fs) ==
    IF fs.features # <<>>
    THEN JsonValue(trim_nearest_feats(fs, NearestFeatsBudget).value)
    ELSE NoneValue

\* a tuple named after the alias alone
ProxTupWithoutSuffix(u, suffix, value) == <<u.identifier, 0, u.var_alias, value>>

\* a tuple of the proximity unit: always ring level 0
ProxTup(u, suffix, value) == <<u.identifier, 0, u.var_alias \o suffix, value>>

\* the directives that request nearest features
ProxDirectives == {a \in Directives : "NEAREST_FEATS_FIELDS" \in a.keys}

ProxUnits ==
    { Process("_nearest_feats_analysis", "fire1", 0, alias, a) :
        alias \in Aliases, a \in ProxDirectives }

\* the classification of the bundle's response
ProxClassified ==
    handle_query_responses(
        << Triple(prox_unit.identifier, prox_unit.var_alias, prox_response) >>,
        [alias \in Aliases |-> prox_unit.analysis_types])

ProxIdle ==
    /\ prox_unit = NoUnit
    /\ prox_response = Dict({}, <<>>)
    /\ clipped_var_gdf = <<>>
    /\ prox_pc = "idle"
    /\ prox_tups = <<>>
    /\ prox_queue = <<>>
    /\ prox_bypass = <<>>
    /\ prox_fsets = NoFSets

ProxInit ==
    /\ prox_unit \in ProxUnits
    /\ prox_response \in DataShapes
    /\ clipped_var_gdf \in VarGdfs
    /\ ProxClassified.query_features_dict = <<>> => clipped_var_gdf = <<>>
    /\ prox_pc = "classify"
    /\ prox_tups = <<>>
    /\ prox_queue = <<>>
    /\ prox_bypass = <<>>
    /\ prox_fsets = NoFSets

\* queries.py 176-254 for the bundle's response: the features go on to
\* analysis, or the bypass lists are added, or nothing is
ProxClassify ==
    /\ prox_pc = "classify"
    /\ prox_bypass' = ProxClassified.results_no_analysis
    /\ prox_pc' = IF ProxClassified.query_features_dict # <<>> THEN "start"
                  ELSE IF ProxClassified.results_no_analysis # <<>> THEN "bypassed"
                  ELSE "dropped"
    /\ UNCHANGED <<prox_unit, prox_response, clipped_var_gdf, prox_tups, prox_queue,
                   prox_fsets>>
    /\ UNCHANGED nonProxVars

\* lines 398-407: no candidate features
ProxBegin ==
    /\ prox_pc = "start"
    /\ IF Len(clipped_var_gdf) < 1
       THEN /\ prox_tups' = << ProxTup(prox_unit, "_nearest_feats", NoneValue),
                               ProxTup(prox_unit, "_interior_feats", NoneValue) >>
            /\ prox_queue' = Append(prox_queue, prox_tups')
            /\ prox_pc' = "done"
       ELSE /\ prox_tups' = <<>>
            /\ prox_pc' = "interior"
            /\ UNCHANGED prox_queue
    /\ UNCHANGED <<prox_unit, prox_response, clipped_var_gdf, prox_bypass, prox_fsets>>
    /\ UNCHANGED nonProxVars

\* lines 410-488: the interior features' tuple
ProxInterior ==
    /\ prox_pc = "interior"
    /\ \E sorted \in SortedArrangements(SelectSeq(clipped_var_gdf, LAMBDA r : r.interior)) :
          /\ trim_nearest_feats(FSetOf(sorted), NearestFeatsBudget).bound
          /\ prox_fsets' = [prox_fsets EXCEPT !.interior = FSetOf(sorted)]
          /\ prox_tups' = Append(prox_tups,
                ProxTup(prox_unit, "_interior_feats", FeatsValue(FSetOf(sorted))))
    /\ prox_pc' = "nearest"
    /\ UNCHANGED <<prox_unit, prox_response, clipped_var_gdf, prox_queue, prox_bypass>>
    /\ UNCHANGED nonProxVars

\* lines 490-502: the nearest features' tuple
ProxNearest ==
    /\ prox_pc = "nearest"
    /\ \E sorted \in SortedArrangements(SelectSeq(clipped_var_gdf, LAMBDA r : ~r.interior)) :
          /\ trim_nearest_feats(FSetOf(sorted), NearestFeatsBudget).bound
          /\ prox_fsets' = [prox_fsets EXCEPT !.nearest = FSetOf(sorted)]
          /\ prox_tups' = Append(prox_tups,
                ProxTup(prox_unit, "_nearest_feats", FeatsValue(FSetOf(sorted))))
    /\ prox_pc' = "put"
    /\ UNCHANGED <<prox_unit, prox_response, clipped_var_gdf, prox_queue, prox_bypass>>
    /\ UNCHANGED nonProxVars

\* line 504: manager_queue.put(attr_tups)
ProxPut ==
    /\ prox_pc = "put"
    /\ prox_queue' = Append(prox_queue, prox_tups)
    /\ prox_pc' = "done"
    /\ UNCHANGED <<prox_unit, prox_response, clipped_var_gdf, prox_tups, prox_bypass,
                   prox_fsets>>
    /\ UNCHANGED nonProxVars

\* lines 506-511: a statement of the try body raised, or
\* _trim_nearest_feats read best_serialized unassigned
ProxExcept ==
    /\ prox_pc \in {"interior", "nearest"}
    /\ \E cls \in AnalysisExceptionClasses \cup {"UnboundLocalError"} :
          /\ cls = "UnboundLocalError" =>
                \E sorted \in SortedArrangements(
                        SelectSeq(clipped_var_gdf, LAMBDA r : r.interior = (prox_pc = "interior"))) :
                    ~trim_nearest_feats(FSetOf(sorted), NearestFeatsBudget).bound
          /\ prox_tups' = << ProxTup(prox_unit, "_nearest_feats", ExcValue(cls)),
                             ProxTup(prox_unit, "_interior_feats", ExcValue(cls)) >>
    /\ prox_queue' = Append(prox_queue, prox_tups')
    /\ prox_pc' = "done"
    /\ UNCHANGED <<prox_unit, prox_response, clipped_var_gdf, prox_bypass, prox_fsets>>
    /\ UNCHANGED nonProxVars

ProxNext ==
    \/ ProxClassify
    \/ ProxBegin
    \/ ProxInterior
    \/ ProxNearest
    \/ ProxPut
    \/ ProxExcept

(***************************************************************************)
(* main.py 211-215 after the classification of the responses of two fires  *)
(* and two datasets: gather_analysis_pairs and gather_processes            *)
(***************************************************************************)
\* what a bundle's query comes back with here: features of one geometry
\* kind, or an empty feature collection
RoutedShapes ==
    { Dict({"features"}, <<>>),
      Dict({"features"}, <<Feature("rings")>>),
      Dict({"features"}, <<Feature("paths"), Feature("paths")>>),
      Dict({"features"}, <<Feature("xy")>>) }

\* main.py after _handle_query_responses returned without a critical message
PairsInit ==
    /\ analysis_plan \in [Aliases -> Directives]
    /\ chunk \in { [j \in DOMAIN ChunkBundles |->
                        Triple(ChunkBundles[j][1], ChunkBundles[j][2], data[j])] :
                    data \in [DOMAIN ChunkBundles -> RoutedShapes] }
    /\ cpc = "idle"
    /\ ci = 0
    /\ query_features_dict = handle_query_responses(chunk, analysis_plan).query_features_dict
    /\ results_no_analysis = handle_query_responses(chunk, analysis_plan).results_no_analysis
    /\ logger_dict = handle_query_responses(chunk, analysis_plan).logger_dict
    /\ rpc = "gather"
    /\ all_processes = <<>>
    /\ ran = {}
    /\ results = <<>>
    /\ edits_sent = FALSE
    /\ attribute_dataframe = NoTable

PairsNext == RunGatherProcesses

(***************************************************************************)
(* main.py 219-238 for one fire with a routed linear dataset and a         *)
(* bypassed dataset: gather_results, the merge and the pivot               *)
(***************************************************************************)
\* the responses of the two bundles: features for the first, an error
\* payload for the second
MergeResponses ==
    << Triple(RunBundles[1][1], RunBundles[1][2],
              Dict({"features"}, <<Feature("paths"), Feature("paths")>>)),
       Triple(RunBundles[2][1], RunBundles[2][2], Dict({"error"}, <<>>)) >>

\* main.py after gather_processes returned all_processes
MergeInit ==
    /\ analysis_plan \in {pl \in [Aliases -> Directives] :
                            /\ pl[RunBundles[2][2]] = SecondDirective
                            /\ "TOTAL_LENGTH_FT" \in pl[RunBundles[1][2]].keys}
    /\ chunk = MergeResponses
    /\ cpc = "idle"
    /\ ci = 0
    /\ query_features_dict = handle_query_responses(chunk, analysis_plan).query_features_dict
    /\ results_no_analysis = handle_query_responses(chunk, analysis_plan).results_no_analysis
    /\ logger_dict = handle_query_responses(chunk, analysis_plan).logger_dict
    /\ rpc = "analysis"
    /\ all_processes = gather_processes(gather_analysis_pairs(query_features_dict),
                                        analysis_plan)
    /\ ran = {}
    /\ results = <<>>
    /\ edits_sent = FALSE
    /\ attribute_dataframe = NoTable

MergeNext == RunCollect \/ RunMerge

(***************************************************************************)
(* Query bundles: process/prepare_wfigs_inputs.py create_analysis_gdf and  *)
(* process/queries.py gather_query_bundles, _write_query_bundle.  A        *)
(* geometry is the set of its vertices and the distance, in whole meters,  *)
(* it has been buffered by.                                                *)
(***************************************************************************)
\* most fires of a run and most rows of the query plan in the model
MaxFires == 2

MaxTemplates == 2

IrwinIDs == {"fire1", "fire2", "fire3"}

Shape(pts) == [pts |-> pts, buffered |-> 0]

FireShapes ==
    { Shape({<<0, 0>>}), Shape({<<100, 200>>, <<400, 250>>, <<300, 900>>}) }

\* geometry.buffer(meters)
Buffer(geometry, meters) ==
    [geometry EXCEPT !.buffered = @ + meters]

\* buffer distances of create_analysis_gdf, in miles and whole meters
BufDistMiles == <<1, 3, 5>>

BufDistMeters == <<1609, 4828, 8047>>

\* the least and the greatest member of a non-empty set of integers
SetMin(S) == CHOOSE x \in S : \A y \in S : x <= y

SetMax(S) == CHOOSE x \in S : \A y \in S : y <= x

\* Geometry.from_shapely(geometry, {'wkid': 3338}).envelope
Envelope(geometry) ==
    [xmin |-> SetMin({p[1] : p \in geometry.pts}) - geometry.buffered,
     ymin |-> SetMin({p[2] : p \in geometry.pts}) - geometry.buffered,
     xmax |-> SetMax({p[1] : p \in geometry.pts}) + geometry.buffered,
     ymax |-> SetMax({p[2] : p \in geometry.pts}) + geometry.buffered,
     wkid |-> 3338]

\* the rows create_analysis_gdf concatenates: the fires at buf_dist 0, then
\* their buffers of 1, 3 and 5 miles
create_analysis_gdf(fires) ==
    LET n == Len(fires)
    IN  [x \in 1..(4 * n) |->
            LET f == fires[((x - 1) % n) + 1]
                lvl == (x - 1) \div n
            IN  [buf_dist |-> IF lvl = 0 THEN 0 ELSE BufDistMiles[lvl],
                 IrwinID  |-> f.IrwinID,
                 geometry |-> IF lvl = 0 THEN f.geometry
                              ELSE Buffer(f.geometry, BufDistMeters[lvl])]]

\* QUERY_PARAMETERS of a template, as the keys json.loads yields
TemplateParams ==
    { [where |-> "1=1"],
      [where |-> "1=1", geometry |-> "template", outSR |-> 4326] }

AgoOrganizations == {"NaN", "nifc"}

token_dict == [nifc |-> "token-nifc"]

Urls == [roads |-> "https://roads/0", parcels |-> "https://parcels/2"]

\* constant_params of _write_query_bundle
constant_params(envelope) ==
    [f |-> "json", geometry |-> envelope, geometryType |-> "esriGeometryEnvelope",
     inSR |-> 3338, outSR |-> 3338, spatialRel |-> "esriSpatialRelIntersects",
     returnGeometry |-> "true"]

\* dict.update: the keys of the second argument replace those of the first
DictUpdate(target, other) == other @@ target

write_query_bundle(fire_max_buf, url_alias, var_url, var_params, ago_org) ==
    LET envelope == Envelope(fire_max_buf.geometry)
        updated == DictUpdate(var_params, constant_params(envelope))
        with_token == IF ago_org # "NaN"
                      THEN DictUpdate(updated, [token |-> token_dict[ago_org]])
                      ELSE updated
    IN  <<fire_max_buf.IrwinID, url_alias, var_url, with_token>>

\* gdf[gdf['buf_dist'] == buf]: the rows of that buffer, in the frame's order
RECURSIVE RowsAtBuf(_, _)
RowsAtBuf(rows, buf) ==
    IF rows = <<>> THEN <<>>
    ELSE (IF Head(rows).buf_dist = buf THEN <<Head(rows)>> ELSE <<>>)
         \o RowsAtBuf(Tail(rows), buf)

\* gather_query_bundles without the filter on the maximum buffer
gather_query_bundles_every_ring(gdf, plan) ==
    LET nt == Len(plan)
    IN  [x \in 1..(Len(gdf) * nt) |->
            LET fire_max_buf == gdf[((x - 1) \div nt) + 1]
                template == plan[((x - 1) % nt) + 1]
            IN  write_query_bundle(fire_max_buf, template.ALIAS, template.URL,
                                   template.QUERY_PARAMETERS,
                                   template.AGO_ORGANIZATION)]

\* gather_query_bundles: the fires at the maximum buffer, outer loop, times
\* the rows of the query plan, inner loop
gather_query_bundles(gdf, plan) ==
    LET max_buf == SetMax({gdf[x].buf_dist : x \in DOMAIN gdf})
        analysis_gdf_max_buf == RowsAtBuf(gdf, max_buf)
        nt == Len(plan)
    IN  [x \in 1..(Len(analysis_gdf_max_buf) * nt) |->
            LET fire_max_buf == analysis_gdf_max_buf[((x - 1) \div nt) + 1]
                template == plan[((x - 1) % nt) + 1]
            IN  write_query_bundle(fire_max_buf, template.ALIAS, template.URL,
                                   template.QUERY_PARAMETERS,
                                   template.AGO_ORGANIZATION)]

\* the fires of a run: distinct IrwinIDs (a fire location whose IrwinID has
\* a perimeter is dropped before the frames are built)
FireFrames ==
    UNION {{ fires \in [1..n -> [IrwinID : IrwinIDs, geometry : FireShapes]] :
                \A x, y \in 1..n : x # y => fires[x].IrwinID # fires[y].IrwinID } :
           n \in 1..MaxFires}

\* the query plan: one row per dataset template
QueryPlans ==
    UNION {{ [x \in 1..n |->
                [ALIAS |-> order[x], URL |-> Urls[order[x]],
                 QUERY_PARAMETERS |-> params[x], AGO_ORGANIZATION |-> org[x]]] :
                order \in {o \in [1..n -> Aliases] :
                              \A x, y \in 1..n : x # y => o[x] # o[y]},
                params \in [1..n -> TemplateParams],
                org \in [1..n -> AgoOrganizations] } :
           n \in 1..MaxTemplates}

BundleIdle ==
    /\ new_fires_gdf = <<>>
    /\ analysis_gdf = <<>>
    /\ query_plan = <<>>
    /\ query_bundles = <<>>
    /\ bundle_pc = "idle"

BundleInit ==
    /\ new_fires_gdf \in FireFrames
    /\ analysis_gdf = <<>>
    /\ query_plan \in QueryPlans
    /\ query_bundles = <<>>
    /\ bundle_pc = "fires"

\* main: analysis_gdf = create_analysis_gdf(...)
BundleCreateAnalysisGdf ==
    /\ bundle_pc = "fires"
    /\ analysis_gdf' = create_analysis_gdf(new_fires_gdf)
    /\ bundle_pc' = "gather"
    /\ UNCHANGED <<new_fires_gdf, query_plan, query_bundles>>
    /\ UNCHANGED nonBundleVars

\* main: query_bundles = gather_query_bundles(...)
BundleGather ==
    /\ bundle_pc = "gather"
    /\ query_bundles' = gather_query_bundles(analysis_gdf, query_plan)
    /\ bundle_pc' = "done"
    /\ UNCHANGED <<new_fires_gdf, analysis_gdf, query_plan>>
    /\ UNCHANGED nonBundleVars

BundleNext == BundleCreateAnalysisGdf \/ BundleGather

(***************************************************************************)
(* Grouped sums: process/analysis.py _run_acres_sum_by_attr and            *)
(* _run_length_ft_sum_by_attr.  geometry_acres is carried in thousandths   *)
(* of an acre and geometry_feet in tenths of a foot; a grouping attribute  *)
(* is a string or null.                                                    *)
(***************************************************************************)
\* most clipped rows in the model
MaxRows == 3

Null == [null |-> TRUE, text |-> ""]

Text(s) == [null |-> FALSE, text |-> s]

\* the strings str.strip() turns into ""
BlankStrings == {"", " "}

\* the values of the grouping attribute in the model, in the order
\* groupby(field, dropna=False) yields its groups: sorted, null last
GroupOrder == <<Text(""), Text(" "), Text("No Data"), Text("private"), Null>>

\* the measures of a row in the model: 1.234 and 2.506 acres, or 123.4 and
\* 250.6 feet
Measures == {1234, 2506}

GroupRow(attr, measure) == [attr |-> attr, measure |-> measure]

\* grouped_gdf[column].sum() of the rows of one group
RECURSIVE GroupSum(_, _)
GroupSum(rows, attr) ==
    IF rows = <<>> THEN 0
    ELSE (IF Head(rows).attr = attr THEN Head(rows).measure ELSE 0)
         + GroupSum(Tail(rows), attr)

\* round(area_acres, 2): thousandths to hundredths (no sum of the model
\* lies halfway)
RoundAcres(thousandths) == (thousandths + 5) \div 10

\* int(length_ft): tenths of a foot to whole feet
IntFeet(tenths) == tenths \div 10

NoDict == [d \in {} |-> 0]

\* the loop body of both functions: the key of the group and the
\* assignment to the dict
GroupedKey(grouped_value) ==
    IF grouped_value.null \/ grouped_value.text \in BlankStrings
    THEN "No Data"
    ELSE grouped_value.text

\* the value a function stores for a group's sum
Stored(kind, total) == IF kind = "acres" THEN RoundAcres(total) ELSE IntFeet(total)

\* the loop over the groups from group g on: `sums[grouped_value] = ...`
RECURSIVE SumByAttr(_, _, _, _)
SumByAttr(rows, kind, g, acc) ==
    IF g > Len(GroupOrder) THEN acc
    ELSE IF \A r \in DOMAIN rows : rows[r].attr # GroupOrder[g]
    THEN SumByAttr(rows, kind, g + 1, acc)
    ELSE SumByAttr(rows, kind, g + 1,
             (GroupedKey(GroupOrder[g]) :> Stored(kind, GroupSum(rows, GroupOrder[g])))
             @@ acc)

run_acres_sum_by_attr(var_gdf) == SumByAttr(var_gdf, "acres", 1, NoDict)

run_length_ft_sum_by_attr(var_gdf) == SumByAttr(var_gdf, "feet", 1, NoDict)

\* the clipped frames of the model: one to MaxRows rows
GroupFrames ==
    UNION {[1..n -> {GroupRow(GroupOrder[g], m) : g \in DOMAIN GroupOrder, m \in Measures}] :
           n \in 1..MaxRows}

GroupIdle ==
    /\ group_gdf = <<>>
    /\ group_kind = "acres"
    /\ group_sums = NoDict
    /\ group_pc = "idle"

GroupInit ==
    /\ group_gdf \in GroupFrames
    /\ group_kind \in {"acres", "feet"}
    /\ group_sums = NoDict
    /\ group_pc = "call"

\* acres_sum_by_attr = _run_acres_sum_by_attr(var_gdf, field)
GroupAcres ==
    /\ group_pc = "call"
    /\ group_kind = "acres"
    /\ group_sums' = run_acres_sum_by_attr(group_gdf)
    /\ group_pc' = "done"
    /\ UNCHANGED <<group_gdf, group_kind>>
    /\ UNCHANGED nonGroupVars

\* length_ft_sum_by_attr = _run_length_ft_sum_by_attr(var_gdf, field)
GroupFeet ==
    /\ group_pc = "call"
    /\ group_kind = "feet"
    /\ group_sums' = run_length_ft_sum_by_attr(group_gdf)
    /\ group_pc' = "done"
    /\ UNCHANGED <<group_gdf, group_kind>>
    /\ UNCHANGED nonGroupVars

GroupNext == GroupAcres \/ GroupFeet

(***************************************************************************)
(* Compass label: process/analysis.py _get_cardinal_direction.  An angle   *)
(* is carried in units of 5.625 degrees (a sixteenth of a right angle): a  *)
(* multiple of 45 degrees is its even number of units, any other angle is  *)
(* the odd number of units in the middle of the 11.25-degree interval that *)
(* holds it.  The sum with 11.25 and the division by 22.5 take the same    *)
(* value over the whole of such an interval.                               *)
(***************************************************************************)
\* the coordinates of a point differ from the origin by at most MaxCoord
MaxCoord == 5

\* tan(11.25 n degrees) for n = 1..7, in millionths
TanE6 == <<198912, 414214, 668179, 1000000, 1496606, 2414214, 5027339>>

Abs(v) == IF v < 0 THEN -v ELSE v

\* atan2 for a point of the closed first quadrant other than the origin
FirstQuadrantUnits(ay, ax) ==
    IF ay = 0 THEN 0
    ELSE IF ax = 0 THEN 16
    ELSE IF ax = ay THEN 8
    ELSE 2 * Cardinality({n \in DOMAIN TanE6 : 1000000 * ay > TanE6[n] * ax}) + 1

\* math.degrees(math.atan2(dy, dx)): an angle in (-180, 180]
Atan2Units(dy, dx) ==
    LET q == FirstQuadrantUnits(Abs(dy), Abs(dx))
    IN  IF dx >= 0 /\ dy >= 0 THEN q
        ELSE IF dx < 0 /\ dy >= 0 THEN 32 - q
        ELSE IF dx < 0 THEN q - 32
        ELSE 0 - q

directions ==
    <<"N", "NNE", "NE", "ENE", "E", "ESE", "SE", "SSE",
      "S", "SSW", "SW", "WSW", "W", "WNW", "NW", "NNW">>

\* an index that leaves out the half sector: int(compass_angle / 22.5) % 16
DirectionIndexOfSectorStart(compass_angle) == (compass_angle \div 4) % 16

\* int((compass_angle + 11.25) / 22.5) % 16
DirectionIndex(compass_angle) == ((compass_angle + 2) \div 4) % 16

get_cardinal_direction(a, b) ==
    LET dx == b[1] - a[1]
        dy == b[2] - a[2]
        angle == Atan2Units(dy, dx)
        compass_angle == (16 - angle) % 64
    IN  IF dx = 0 /\ dy = 0 THEN "None"
        ELSE directions[DirectionIndex(compass_angle) + 1]

DirPoints == {<<0, 0>>, <<2, -1>>}

DirIdle ==
    /\ point_a = <<0, 0>>
    /\ point_b = <<0, 0>>
    /\ direction = ""
    /\ dir_pc = "idle"

DirInit ==
    /\ point_a \in DirPoints
    /\ point_b \in {<<point_a[1] + ex, point_a[2] + ey>> :
                       ex \in (0 - MaxCoord)..MaxCoord, ey \in (0 - MaxCoord)..MaxCoord}
    /\ direction = ""
    /\ dir_pc = "call"

\* direction = _get_cardinal_direction(point_a, point_b)
DirCall ==
    /\ dir_pc = "call"
    /\ direction' = get_cardinal_direction(point_a, point_b)
    /\ dir_pc' = "done"
    /\ UNCHANGED <<point_a, point_b>>
    /\ UNCHANGED nonDirVars

DirNext == DirCall

(***************************************************************************)
(* Ring reconstruction: utils/arcgis_helpers.py _arcgis_polygon_cleanup.   *)
(* The rings of the model have integer vertices and edges parallel to the  *)
(* axes; the region of a geometry is the set of the unit squares it        *)
(* covers, a square being named by its lower left corner.                  *)
(***************************************************************************)
\* the coordinates of the model's vertices lie in 0..MaxX and 0..MaxY
MaxX == 7

MaxY == 6

Squares == (0..(MaxX - 1)) \X (0..(MaxY - 1))

\* the vertical edges of a closed vertex list
VerticalEdges(coords) ==
    {n \in 1..(Len(coords) - 1) : coords[n][1] = coords[n + 1][1]}

\* shp.Polygon(coords): the squares with an odd number of the ring's
\* vertical edges to their right
PolygonRegion(coords) ==
    {sq \in Squares :
        Cardinality({n \in VerticalEdges(coords) :
                        /\ coords[n][1] > sq[1]
                        /\ SetMin({coords[n][2], coords[n + 1][2]}) <= sq[2]
                        /\ sq[2] < SetMax({coords[n][2], coords[n + 1][2]})}) % 2 = 1}

Polygon(coords) == [shell |-> coords, region |-> PolygonRegion(coords)]

\* twice the signed area of a closed vertex list, positive when it runs
\* counter-clockwise
RECURSIVE Shoelace(_, _)
Shoelace(coords, n) ==
    IF n >= Len(coords) THEN 0
    ELSE coords[n][1] * coords[n + 1][2] - coords[n + 1][1] * coords[n][2]
         + Shoelace(coords, n + 1)

\* polygon.exterior.is_ccw
is_ccw(polygon) == Shoelace(polygon.shell, 1) > 0

\* shp.reverse(polygon)
reverse(polygon) ==
    Polygon([n \in DOMAIN polygon.shell |->
                polygon.shell[Len(polygon.shell) + 1 - n]])

\* polygon.bounds: (minx, miny, maxx, maxy)
bounds(polygon) ==
    LET xs == {polygon.shell[n][1] : n \in DOMAIN polygon.shell}
        ys == {polygon.shell[n][2] : n \in DOMAIN polygon.shell}
    IN  <<SetMin(xs), SetMin(ys), SetMax(xs), SetMax(ys)>>

\* a gatekeeper that lets through the pairs whose boxes are apart
BoxesIntersectInverted(a, b) ==
    ~ (/\ a[1] <= b[3] /\ b[1] <= a[3]
       /\ a[2] <= b[4] /\ b[2] <= a[4])

\* shp.box(*a).intersects(shp.box(*b))
BoxesIntersect(a, b) ==
    /\ a[1] <= b[3] /\ b[1] <= a[3]
    /\ a[2] <= b[4] /\ b[2] <= a[4]

\* shp.contains(b, a)
contains(b, a) == a.region # {} /\ a.region \subseteq b.region

\* the flag of a hole-sorting loop that never finds a containing ring
a_is_contained_never(all_rings, idx_a) == FALSE

\* the flag a_is_contained at the end of the inner loop
a_is_contained(all_rings, idx_a) ==
    \E idx_b \in DOMAIN all_rings :
        /\ idx_a # idx_b
        /\ BoxesIntersect(bounds(all_rings[idx_a]), bounds(all_rings[idx_b]))
        /\ contains(all_rings[idx_b], all_rings[idx_a])

\* the members of a list that satisfy a flag, in the list's order
RECURSIVE SortedRings(_, _, _)
SortedRings(all_rings, n, wanted) ==
    IF n > Len(all_rings) THEN <<>>
    ELSE (IF a_is_contained(all_rings, n) = wanted THEN <<all_rings[n]>> ELSE <<>>)
         \o SortedRings(all_rings, n + 1, wanted)

\* the loop that turns every ring of a list counter-clockwise
Oriented(ring_lst) ==
    [n \in DOMAIN ring_lst |->
        IF is_ccw(ring_lst[n]) THEN ring_lst[n] ELSE reverse(ring_lst[n])]

\* shp.MultiPolygon(ring_lst), repaired by make_valid where its members
\* overlap: the union of the members' regions
MultiPolygon(ring_lst) ==
    [region |-> UNION {ring_lst[n].region : n \in DOMAIN ring_lst}]

\* shp.difference(a, b)
difference(a, b) == [region |-> a.region \ b.region]

\* geometry.area
Area(geometry) == Cardinality(geometry.region)

NoGeometry == [region |-> {}]

\* a closed rectangle ring that starts at its lower left corner and runs
\* clockwise, the order of an ArcGIS boundary ring
RectRing(x1, y1, x2, y2) ==
    <<<<x1, y1>>, <<x1, y2>>, <<x2, y2>>, <<x2, y1>>, <<x1, y1>>>>

\* an L-shaped ring, clockwise
LRing == <<<<0, 0>>, <<0, 6>>, <<3, 6>>, <<3, 4>>, <<7, 4>>, <<7, 0>>, <<0, 0>>>>

Reversed(coords) == [n \in DOMAIN coords |-> coords[Len(coords) + 1 - n]]

\* boundary rings and, for each, rings that lie inside it
BoundaryRings == {RectRing(0, 0, 7, 6), LRing}

HoleRings == {RectRing(1, 1, 3, 2), RectRing(1, 1, 2, 3), RectRing(4, 1, 6, 3)}

\* either winding order of a ring
Windings(coords) == {coords, Reversed(coords)}

\* a ring in the notch of the L-shaped ring: inside its box, outside the ring
NotchRing == RectRing(4, 5, 6, 6)

\* three rings: a boundary with two holes, a boundary with a hole and an
\* island in the hole, the L-shaped ring with a hole and a ring in its notch
RingTriples ==
    { <<RectRing(0, 0, 7, 6), Reversed(RectRing(1, 1, 3, 2)), Reversed(RectRing(4, 1, 6, 3))>>,
      <<RectRing(0, 0, 7, 6), Reversed(RectRing(1, 1, 6, 5)), RectRing(2, 2, 3, 3)>>,
      <<LRing, Reversed(RectRing(1, 1, 2, 3)), NotchRing>> }

\* every order of three rings
Orders(t) ==
    {<<t[a], t[b], t[c]>> : <<a, b, c>> \in {o \in (1..3) \X (1..3) \X (1..3) :
                                                 Cardinality({o[1], o[2], o[3]}) = 3}}

\* the encodings of the model: one ring; a boundary and a hole inside it,
\* in either order; two rings side by side; a ring in the notch of another;
\* three rings in every order
RingEncodings ==
    {<<b>> : b \in UNION {Windings(c) : c \in BoundaryRings \cup HoleRings}}
    \cup UNION {{<<b, h>>, <<h, b>>} :
                   b \in UNION {Windings(c) : c \in BoundaryRings},
                   h \in UNION {Windings(c) : c \in HoleRings}}
    \cup UNION {{<<p, q>>, <<q, p>>} :
                   p \in Windings(RectRing(0, 0, 3, 6)),
                   q \in Windings(RectRing(4, 1, 6, 3))}
    \cup {<<LRing, NotchRing>>, <<NotchRing, LRing>>}
    \cup UNION {Orders(t) : t \in RingTriples}

CleanupIdle ==
    /\ rings = <<>>
    /\ exterior_rings = <<>>
    /\ interior_rings = <<>>
    /\ output_polygon = NoGeometry
    /\ cleanup_pc = "idle"

CleanupInit ==
    /\ rings \in RingEncodings
    /\ exterior_rings = <<>>
    /\ interior_rings = <<>>
    /\ output_polygon = NoGeometry
    /\ cleanup_pc = "start"

\* `if len(rings) == 1:` with its early return
CleanupSinglePart ==
    /\ cleanup_pc = "start"
    /\ Len(rings) = 1
    /\ output_polygon' = [region |-> (IF is_ccw(Polygon(rings[1]))
                                      THEN Polygon(rings[1])
                                      ELSE reverse(Polygon(rings[1]))).region]
    /\ cleanup_pc' = "done"
    /\ UNCHANGED <<rings, exterior_rings, interior_rings>>
    /\ UNCHANGED nonCleanupVars

\* the loops that build all_rings and sort it into interior and exterior
CleanupSortRings ==
    /\ cleanup_pc = "start"
    /\ Len(rings) # 1
    /\ LET all_rings == [n \in DOMAIN rings |-> Polygon(rings[n])]
       IN  /\ interior_rings' = SortedRings(all_rings, 1, TRUE)
           /\ exterior_rings' = SortedRings(all_rings, 1, FALSE)
    /\ cleanup_pc' = "classified"
    /\ UNCHANGED <<rings, output_polygon>>
    /\ UNCHANGED nonCleanupVars

\* the loop over both lists that reverses the rings that are not
\* counter-clockwise
CleanupOrient ==
    /\ cleanup_pc = "classified"
    /\ interior_rings' = Oriented(interior_rings)
    /\ exterior_rings' = Oriented(exterior_rings)
    /\ cleanup_pc' = "oriented"
    /\ UNCHANGED <<rings, output_polygon>>
    /\ UNCHANGED nonCleanupVars

\* the multipolygons, their repair and `return multipoly`
CleanupDifference ==
    /\ cleanup_pc = "oriented"
    /\ output_polygon' = difference(MultiPolygon(exterior_rings),
                                    MultiPolygon(interior_rings))
    /\ cleanup_pc' = "done"
    /\ UNCHANGED <<rings, exterior_rings, interior_rings>>
    /\ UNCHANGED nonCleanupVars

CleanupNext ==
    CleanupSinglePart \/ CleanupSortRings \/ CleanupOrient \/ CleanupDifference

(***************************************************************************)
(* Classifier pools: main.py 174-179 and process/queries.py                *)
(* handle_query_response_pools, _merge_pool_results.  A defaultdict that   *)
(* lacks a key and one that holds an empty list under it are the same      *)
(* accumulator in the model.                                               *)
(***************************************************************************)
\* most fires and most dataset templates of a run that computes a batch size
MaxPoolFires == 2

MaxPoolTemplates == 4

\* most responses and greatest batch size of a direct call
MaxResponses == 4

MaxPoolBatch == 5

PoolFires == <<"fire1", "fire2", "fire3">>

PoolAliases == <<"roads", "parcels", "trails", "wells", "mines", "cabins">>

\* the analysis plan of the pools: a directive for every alias
PoolPlan ==
    [a \in Range(PoolAliases) |->
        IF a \in {"roads", "trails"}
        THEN AnalysisTypesDict({"TOTAL_LENGTH_FT", "NEAREST_FEATS_FIELDS"},
                 [NoFields EXCEPT !["NEAREST_FEATS_FIELDS"] = <<"name">>])
        ELSE AnalysisTypesDict({"FEATURE_COUNT", "ATTR_COUNT_FIELDS"},
                 [NoFields EXCEPT !["ATTR_COUNT_FIELDS"] = <<"type">>])]

\* the responses of a run of nf fires and nt templates, in bundle order,
\* with the data of each drawn from a set
RunResponses(nf, nt, shapes) ==
    {[x \in 1..(nf * nt) |->
         Triple(PoolFires[((x - 1) \div nt) + 1], PoolAliases[((x - 1) % nt) + 1],
                data[x])] : data \in [1..(nf * nt) -> shapes]}

\* [tuple(query_responses[i: i + batch_size]) for i in range(0, len, batch_size)]
ResponseChunks(resps, size) ==
    [c \in 1..((Len(resps) + size - 1) \div size) |->
        SubSeq(resps, (c - 1) * size + 1, Min(c * size, Len(resps)))]

\* the IrwinIDs of the chunked dicts, each once, in the order a dict
\* comprehension over them inserts its keys
RECURSIVE TemplateKeys(_, _)
TemplateKeys(entries, seen) ==
    IF entries = <<>> THEN <<>>
    ELSE IF Head(entries).identifier \in seen THEN TemplateKeys(Tail(entries), seen)
    ELSE <<Head(entries).identifier>>
         \o TemplateKeys(Tail(entries), seen \cup {Head(entries).identifier})

\* the pairs one chunked dict holds for an IrwinID
PairsIn(qfd, irwin) ==
    IF \E x \in DOMAIN qfd : qfd[x].identifier = irwin
    THEN qfd[CHOOSE x \in DOMAIN qfd : qfd[x].identifier = irwin].pairs
    ELSE <<>>

\* a merge that assigns a chunk's pairs to the IrwinID in place of
\* extending the list
merge_pool_results_assigning(outs) ==
    LET dicts == [c \in DOMAIN outs |-> outs[c].query_features_dict]
        keys == TemplateKeys(Chain(dicts), {})
        LastWith(irwin) ==
            CHOOSE c \in DOMAIN dicts :
                /\ PairsIn(dicts[c], irwin) # <<>>
                /\ \A c2 \in DOMAIN dicts : PairsIn(dicts[c2], irwin) # <<>> => c2 <= c
    IN  [query_features_dict |->
            [x \in DOMAIN keys |->
                [identifier |-> keys[x],
                 pairs |-> PairsIn(dicts[LastWith(keys[x])], keys[x])]],
         results_no_analysis |->
            Chain([c \in DOMAIN outs |-> outs[c].results_no_analysis]),
         logger_dict |->
            [critical |-> Chain([c \in DOMAIN outs |-> outs[c].logger_dict.critical]),
             error |-> Chain([c \in DOMAIN outs |-> outs[c].logger_dict.error])]]

\* _merge_pool_results(results): every IrwinID of the chunked dicts with
\* the pairs of the chunks in chunk order, the bypass lists of the chunks in
\* chunk order, and per level the messages of the chunks in chunk order
merge_pool_results(outs) ==
    LET dicts == [c \in DOMAIN outs |-> outs[c].query_features_dict]
        keys == TemplateKeys(Chain(dicts), {})
    IN  [query_features_dict |->
            [x \in DOMAIN keys |->
                [identifier |-> keys[x],
                 pairs |-> Chain([c \in DOMAIN dicts |-> PairsIn(dicts[c], keys[x])])]],
         results_no_analysis |->
            Chain([c \in DOMAIN outs |-> outs[c].results_no_analysis]),
         logger_dict |->
            [critical |-> Chain([c \in DOMAIN outs |-> outs[c].logger_dict.critical]),
             error |-> Chain([c \in DOMAIN outs |-> outs[c].logger_dict.error])]]

\* the data of the responses of the pools
PoolShapes ==
    { Dict({"error"}, <<>>), Dict({"features"}, <<>>),
      Dict({"features"}, <<Feature("rings")>>),
      Dict({"features"}, <<Feature("paths"), Feature("paths")>>) }

\* the responses of a direct call: those of up to MaxResponses bundles of
\* two fires and two templates, or a reduced exception in place of the last
PoolCalls ==
    UNION {{[x \in 1..n |-> IF x = n /\ last_reduced
                            THEN ReducedException("TypeError")
                            ELSE Triple(PoolFires[((x - 1) \div 2) + 1],
                                        PoolAliases[((x - 1) % 2) + 1], data[x])] :
               data \in [1..n -> PoolShapes], last_reduced \in BOOLEAN} :
           n \in 1..MaxResponses}

PoolIdle ==
    /\ pool_responses = <<>>
    /\ pool_plan = PoolPlan
    /\ pool_rows = 0
    /\ pool_batch_size = 0
    /\ response_chunks = <<>>
    /\ starmap_results = <<>>
    /\ pool_merged = EmptyAcc
    /\ pool_pc = "idle"

\* a call handle_query_response_pools(query_responses, analysis_plan,
\* batch_size) with a positive batch size
PoolInit ==
    /\ pool_responses \in PoolCalls
    /\ pool_plan = PoolPlan
    /\ pool_rows = 0
    /\ pool_batch_size \in 1..MaxPoolBatch
    /\ response_chunks = <<>>
    /\ starmap_results = <<>>
    /\ pool_merged = EmptyAcc
    /\ pool_pc = "chunk"

\* main after the queries of a run of nf fires and nt templates: one
\* response per bundle, four rows of analysis_gdf per fire
SizeInit ==
    /\ \E nf \in 1..MaxPoolFires : \E nt \in 1..MaxPoolTemplates :
          /\ pool_responses \in
                 RunResponses(nf, nt, {Dict({"error"}, <<>>),
                                       Dict({"features"}, <<Feature("rings")>>)})
          /\ pool_rows = 4 * nf
    /\ pool_plan = PoolPlan
    /\ pool_batch_size = 0
    /\ response_chunks = <<>>
    /\ starmap_results = <<>>
    /\ pool_merged = EmptyAcc
    /\ pool_pc = "size"

\* main.py 175: batch_size = len(query_responses) // len(analysis_gdf)
PoolBatchSize ==
    /\ pool_pc = "size"
    /\ pool_batch_size' = Len(pool_responses) \div pool_rows
    /\ pool_pc' = "chunk"
    /\ UNCHANGED <<pool_responses, pool_plan, pool_rows, response_chunks,
                   starmap_results, pool_merged>>
    /\ UNCHANGED nonPoolVars

\* queries.py 89: the chunks; range() raises ValueError for a step of 0
PoolChunk ==
    /\ pool_pc = "chunk"
    /\ IF pool_batch_size = 0
       THEN /\ pool_pc' = "raised"
            /\ response_chunks' = response_chunks
       ELSE /\ response_chunks' = ResponseChunks(pool_responses, pool_batch_size)
            /\ pool_pc' = "starmap"
    /\ UNCHANGED <<pool_responses, pool_plan, pool_rows, pool_batch_size,
                   starmap_results, pool_merged>>
    /\ UNCHANGED nonPoolVars

\* queries.py 91-96: p.starmap returns the results in the order of the chunks
PoolStarmap ==
    /\ pool_pc = "starmap"
    /\ starmap_results' = [c \in DOMAIN response_chunks |->
                              handle_query_responses(response_chunks[c], pool_plan)]
    /\ pool_pc' = "merge"
    /\ UNCHANGED <<pool_responses, pool_plan, pool_rows, pool_batch_size,
                   response_chunks, pool_merged>>
    /\ UNCHANGED nonPoolVars

\* queries.py 98-100: the merge and the return
PoolMerge ==
    /\ pool_pc = "merge"
    /\ pool_merged' = merge_pool_results(starmap_results)
    /\ pool_pc' = "done"
    /\ UNCHANGED <<pool_responses, pool_plan, pool_rows, pool_batch_size,
                   response_chunks, starmap_results>>
    /\ UNCHANGED nonPoolVars

PoolNext == PoolChunk \/ PoolStarmap \/ PoolMerge

SizeNext == PoolBatchSize \/ PoolChunk \/ PoolStarmap \/ PoolMerge

(***************************************************************************)
(* Attribute JSON: process/analysis.py _sort_trim_attr_json                *)
(***************************************************************************)
\* the default of the parameter max_length, which every caller leaves alone
AttrJsonMaxLength == 5000

\* most items of a dict of the model
MaxItems == 4

\* lengths of the keys of the model, as json.dumps writes them without the
\* quotes, and the values (counts)
KeySizes == {1200, 2600, 5200}

ItemValues == 1..2

\* an item of the dict: the key (its position in the argument names it),
\* the length of its text, and the value
Item(key, size, value) == [key |-> key, size |-> size, value |-> value]

\* len(json.dumps(d)) for a dict of such items: the braces, per item the
\* quoted key, ": " and the digits of the value, and ", " between items
RECURSIVE ItemsLen(_)
ItemsLen(items) ==
    IF items = <<>> THEN 0
    ELSE Head(items).size + 2 + 2 + Digits(Head(items).value) + ItemsLen(Tail(items))

DumpsLen(items) ==
    2 + ItemsLen(items) + (IF Len(items) > 1 THEN 2 * (Len(items) - 1) ELSE 0)

\* json.dumps(d): the items in the dict's order, and the length of the text
dumps(items) == [items |-> items, len |-> DumpsLen(items)]

\* sorted(..., reverse=False) on the values: ascending, items of equal
\* value in the order of the argument
RECURSIVE InsertAscending(_, _)
InsertAscending(sorted_items, item) ==
    IF sorted_items = <<>> THEN <<item>>
    ELSE IF Head(sorted_items).value <= item.value
         THEN <<Head(sorted_items)>> \o InsertAscending(Tail(sorted_items), item)
         ELSE <<item>> \o sorted_items

RECURSIVE sorted_by_value_ascending(_)
sorted_by_value_ascending(items) ==
    IF items = <<>> THEN <<>>
    ELSE InsertAscending(sorted_by_value_ascending(SubSeq(items, 1, Len(items) - 1)),
                         items[Len(items)])

\* an item put into a list sorted by value descending, behind the items of
\* the same value
RECURSIVE InsertDescending(_, _)
InsertDescending(sorted_items, item) ==
    IF sorted_items = <<>> THEN <<item>>
    ELSE IF Head(sorted_items).value >= item.value
         THEN <<Head(sorted_items)>> \o InsertDescending(Tail(sorted_items), item)
         ELSE <<item>> \o sorted_items

\* sorted(attr_json.items(), key=lambda item: item[1], reverse=True): by
\* value descending; the sort is stable, so items of equal value keep the
\* order of the argument
RECURSIVE sorted_by_value(_)
sorted_by_value(items) ==
    IF items = <<>> THEN <<>>
    ELSE InsertDescending(sorted_by_value(SubSeq(items, 1, Len(items) - 1)),
                          items[Len(items)])

AttrIdle ==
    /\ attr_json = <<>>
    /\ attr_json_sorted = <<>>
    /\ attr_json_serialized = dumps(<<>>)
    /\ attr_pc = "idle"

\* a call with a dict of up to MaxItems items with distinct keys
AttrInit ==
    /\ \E n \in 0..MaxItems : \E sv \in [1..n -> KeySizes \X ItemValues] :
          attr_json = [x \in 1..n |-> Item(x, sv[x][1], sv[x][2])]
    /\ attr_json_sorted = <<>>
    /\ attr_json_serialized = dumps(<<>>)
    /\ attr_pc = "start"

\* analysis.py 563-565: the sorted dict and its first serialization
AttrSort ==
    /\ attr_pc = "start"
    /\ attr_json_sorted' = sorted_by_value(attr_json)
    /\ attr_json_serialized' = dumps(sorted_by_value(attr_json))
    /\ attr_pc' = "loop"
    /\ UNCHANGED attr_json
    /\ UNCHANGED nonAttrVars

\* analysis.py 567-569: one pass of the loop; popitem() removes the item
\* inserted last
AttrPop ==
    /\ attr_pc = "loop"
    /\ attr_json_serialized.len > AttrJsonMaxLength
    /\ attr_json_sorted' = SubSeq(attr_json_sorted, 1, Len(attr_json_sorted) - 1)
    /\ attr_json_serialized' = dumps(SubSeq(attr_json_sorted, 1, Len(attr_json_sorted) - 1))
    /\ UNCHANGED <<attr_json, attr_pc>>
    /\ UNCHANGED nonAttrVars

\* analysis.py 567, 571: the loop ends and the text is returned
AttrReturn ==
    /\ attr_pc = "loop"
    /\ attr_json_serialized.len <= AttrJsonMaxLength
    /\ attr_pc' = "returned"
    /\ UNCHANGED <<attr_json, attr_json_sorted, attr_json_serialized>>
    /\ UNCHANGED nonAttrVars

AttrNext == AttrSort \/ AttrPop \/ AttrReturn

(***************************************************************************)
(* Target service layers: process/prepare_wfigs_inputs.py                  *)
(* get_wfigs_updates, from the flag's default to the end of the loop over  *)
(* err_responses                                                           *)
(***************************************************************************)
\* `for lyr_idx in (0,1,2,3)`
LayerCount == 4

\* maximum modified timestamps of the model, in milliseconds
Timestamps == {1000, 2000}

\* the IrwinIDs a layer of the model can report with HasError = 1
ErrorIrwins == {"fire1", "fire2"}

WfigsIdle ==
    /\ tmax_responses = <<>>
    /\ err_responses = <<>>
    /\ seconds = {}
    /\ irwins_with_errors = {}
    /\ check_json_pickles = TRUE
    /\ lyr = 0
    /\ wfigs_pc = "idle"

\* `check_json_pickles = True`, and the responses of the four layers to
\* the two gathers
WfigsInit ==
    /\ tmax_responses \in [1..LayerCount -> Timestamps]
    /\ err_responses \in [1..LayerCount -> SUBSET ErrorIrwins]
    /\ seconds = {}
    /\ irwins_with_errors = {}
    /\ check_json_pickles = TRUE
    /\ lyr = 0
    /\ wfigs_pc = "tmax"

\* prepare_wfigs_inputs.py 70-75: the loop that fills seconds, and
\* `if len(seconds) > 1: check_json_pickles = False`; then
\* `irwins_with_errors = set()`
WfigsMaxTimestamp ==
    /\ wfigs_pc = "tmax"
    /\ seconds' = {tmax_responses[n] \div 1000 : n \in DOMAIN tmax_responses}
    /\ check_json_pickles' =
          IF Cardinality({tmax_responses[n] \div 1000 : n \in DOMAIN tmax_responses}) > 1
          THEN FALSE ELSE check_json_pickles
    /\ irwins_with_errors' = {}
    /\ lyr' = 1
    /\ wfigs_pc' = "errors"
    /\ UNCHANGED <<tmax_responses, err_responses>>
    /\ UNCHANGED nonWfigsVars

\* `if irwins_with_errors and irwins != irwins_with_errors`
Differs(so_far, irwins) == so_far # {} /\ irwins # so_far

\* prepare_wfigs_inputs.py 93-97: one pass of `for resp in err_responses`
WfigsErrorLayer ==
    /\ wfigs_pc = "errors"
    /\ lyr <= Len(err_responses)
    /\ check_json_pickles' =
          IF Differs(irwins_with_errors, err_responses[lyr])
          THEN FALSE ELSE check_json_pickles
    /\ irwins_with_errors' = irwins_with_errors \cup err_responses[lyr]
    /\ lyr' = lyr + 1
    /\ UNCHANGED <<tmax_responses, err_responses, seconds, wfigs_pc>>
    /\ UNCHANGED nonWfigsVars

\* the loop over err_responses is over
WfigsCompared ==
    /\ wfigs_pc = "errors"
    /\ lyr > Len(err_responses)
    /\ wfigs_pc' = "compared"
    /\ UNCHANGED <<tmax_responses, err_responses, seconds, irwins_with_errors,
                   check_json_pickles, lyr>>
    /\ UNCHANGED nonWfigsVars

WfigsNext == WfigsMaxTimestamp \/ WfigsErrorLayer \/ WfigsCompared

(***************************************************************************)
(* Specifications: each one runs one subsystem from its initial state and  *)
(* holds the other subsystems idle.                                        *)
(***************************************************************************)
SchedStart ==
    /\ SchedInit
    /\ QueryIdle
    /\ ClassIdle
    /\ WorkIdle
    /\ RunIdle
    /\ TransportIdle
    /\ PageIdle
    /\ TrimIdle
    /\ ProxIdle
    /\ BundleIdle
    /\ GroupIdle
    /\ DirIdle
    /\ CleanupIdle
    /\ PoolIdle
    /\ AttrIdle
    /\ WfigsIdle

SchedIdle ==
    /\ nprocs = 0
    /\ batch_size = 1
    /\ capacity = 1
    /\ proc_state = <<>>
    /\ starts = <<>>
    /\ joined = <<>>
    /\ manager_queue = <<>>
    /\ process_results = <<>>
    /\ pc = "idle"
    /\ i = 0
    /\ k = 0
    /\ all_exited = FALSE
    /\ get_failed = FALSE
    /\ late_put = FALSE
    /\ backlog = FALSE

QueryStart ==
    /\ QueryInit
    /\ SchedIdle
    /\ ClassIdle
    /\ WorkIdle
    /\ RunIdle
    /\ TransportIdle
    /\ PageIdle
    /\ TrimIdle
    /\ ProxIdle
    /\ BundleIdle
    /\ GroupIdle
    /\ DirIdle
    /\ CleanupIdle
    /\ PoolIdle
    /\ AttrIdle
    /\ WfigsIdle

QuerySpec == QueryStart /\ [][QueryNext]_vars

ClassStart ==
    /\ ClassInit
    /\ SchedIdle
    /\ QueryIdle
    /\ WorkIdle
    /\ RunIdle
    /\ TransportIdle
    /\ PageIdle
    /\ TrimIdle
    /\ ProxIdle
    /\ BundleIdle
    /\ GroupIdle
    /\ DirIdle
    /\ CleanupIdle
    /\ PoolIdle
    /\ AttrIdle
    /\ WfigsIdle

ClassSpec == ClassStart /\ [][ClassNext]_vars

WorkStart ==
    /\ WorkInit
    /\ SchedIdle
    /\ QueryIdle
    /\ ClassIdle
    /\ RunIdle
    /\ TransportIdle
    /\ PageIdle
    /\ TrimIdle
    /\ ProxIdle
    /\ BundleIdle
    /\ GroupIdle
    /\ DirIdle
    /\ CleanupIdle
    /\ PoolIdle
    /\ AttrIdle
    /\ WfigsIdle

WorkSpec == WorkStart /\ [][WorkNext]_vars

RunStart ==
    /\ RunInit
    /\ SchedIdle
    /\ QueryIdle
    /\ WorkIdle
    /\ TransportIdle
    /\ PageIdle
    /\ TrimIdle
    /\ ProxIdle
    /\ BundleIdle
    /\ GroupIdle
    /\ DirIdle
    /\ CleanupIdle
    /\ PoolIdle
    /\ AttrIdle
    /\ WfigsIdle

RunSpec == RunStart /\ [][RunNext]_vars

SchedSpec == SchedStart /\ [][SchedNext]_vars

\* the scheduler thread keeps running while it is not blocked, and every
\* started worker process is scheduled by the operating system
SchedFairSpec ==
    /\ SchedSpec
    /\ WF_vars(Scheduler)
    /\ \A p \in 1..(MaxProcs + 1) :
          WF_vars(p \in 1..nprocs /\ (WorkerPut(p) \/ WorkerExit(p)))

TransportStart ==
    /\ TransportInit
    /\ SchedIdle
    /\ QueryIdle
    /\ ClassIdle
    /\ WorkIdle
    /\ RunIdle
    /\ PageIdle
    /\ TrimIdle
    /\ ProxIdle
    /\ BundleIdle
    /\ GroupIdle
    /\ DirIdle
    /\ CleanupIdle
    /\ PoolIdle
    /\ AttrIdle
    /\ WfigsIdle

TransportSpec == TransportStart /\ [][TransportNext]_vars

PageStart ==
    /\ PageInit
    /\ SchedIdle
    /\ QueryIdle
    /\ ClassIdle
    /\ WorkIdle
    /\ RunIdle
    /\ TransportIdle
    /\ TrimIdle
    /\ ProxIdle
    /\ BundleIdle
    /\ GroupIdle
    /\ DirIdle
    /\ CleanupIdle
    /\ PoolIdle
    /\ AttrIdle
    /\ WfigsIdle

PageSpec == PageStart /\ [][PageNext]_vars

TrimStart ==
    /\ TrimInit
    /\ SchedIdle
    /\ QueryIdle
    /\ ClassIdle
    /\ WorkIdle
    /\ RunIdle
    /\ TransportIdle
    /\ PageIdle
    /\ ProxIdle
    /\ BundleIdle
    /\ GroupIdle
    /\ DirIdle
    /\ CleanupIdle
    /\ PoolIdle
    /\ AttrIdle
    /\ WfigsIdle

TrimSpec == TrimStart /\ [][TrimNext]_vars

ProxStart ==
    /\ ProxInit
    /\ SchedIdle
    /\ QueryIdle
    /\ ClassIdle
    /\ WorkIdle
    /\ RunIdle
    /\ TransportIdle
    /\ PageIdle
    /\ TrimIdle
    /\ BundleIdle
    /\ GroupIdle
    /\ DirIdle
    /\ CleanupIdle
    /\ PoolIdle
    /\ AttrIdle
    /\ WfigsIdle

ProxSpec == ProxStart /\ [][ProxNext]_vars

PairsStart ==
    /\ PairsInit
    /\ SchedIdle
    /\ QueryIdle
    /\ WorkIdle
    /\ TransportIdle
    /\ PageIdle
    /\ TrimIdle
    /\ ProxIdle
    /\ BundleIdle
    /\ GroupIdle
    /\ DirIdle
    /\ CleanupIdle
    /\ PoolIdle
    /\ AttrIdle
    /\ WfigsIdle

PairsSpec == PairsStart /\ [][PairsNext]_vars

MergeStart ==
    /\ MergeInit
    /\ SchedIdle
    /\ QueryIdle
    /\ WorkIdle
    /\ TransportIdle
    /\ PageIdle
    /\ TrimIdle
    /\ ProxIdle
    /\ BundleIdle
    /\ GroupIdle
    /\ DirIdle
    /\ CleanupIdle
    /\ PoolIdle
    /\ AttrIdle
    /\ WfigsIdle

MergeSpec == MergeStart /\ [][MergeNext]_vars

BundleStart ==
    /\ BundleInit
    /\ SchedIdle
    /\ QueryIdle
    /\ ClassIdle
    /\ WorkIdle
    /\ RunIdle
    /\ TransportIdle
    /\ PageIdle
    /\ TrimIdle
    /\ ProxIdle
    /\ GroupIdle
    /\ DirIdle
    /\ CleanupIdle
    /\ PoolIdle
    /\ AttrIdle
    /\ WfigsIdle

BundleSpec == BundleStart /\ [][BundleNext]_vars

GroupStart ==
    /\ GroupInit
    /\ SchedIdle
    /\ QueryIdle
    /\ ClassIdle
    /\ WorkIdle
    /\ RunIdle
    /\ TransportIdle
    /\ PageIdle
    /\ TrimIdle
    /\ ProxIdle
    /\ BundleIdle
    /\ DirIdle
    /\ CleanupIdle
    /\ PoolIdle
    /\ AttrIdle
    /\ WfigsIdle

GroupSpec == GroupStart /\ [][GroupNext]_vars

DirStart ==
    /\ DirInit
    /\ SchedIdle
    /\ QueryIdle
    /\ ClassIdle
    /\ WorkIdle
    /\ RunIdle
    /\ TransportIdle
    /\ PageIdle
    /\ TrimIdle
    /\ ProxIdle
    /\ BundleIdle
    /\ GroupIdle
    /\ CleanupIdle
    /\ PoolIdle
    /\ AttrIdle
    /\ WfigsIdle

DirSpec == DirStart /\ [][DirNext]_vars

CleanupStart ==
    /\ CleanupInit
    /\ SchedIdle
    /\ QueryIdle
    /\ ClassIdle
    /\ WorkIdle
    /\ RunIdle
    /\ TransportIdle
    /\ PageIdle
    /\ TrimIdle
    /\ ProxIdle
    /\ BundleIdle
    /\ GroupIdle
    /\ DirIdle
    /\ PoolIdle
    /\ AttrIdle
    /\ WfigsIdle

CleanupSpec == CleanupStart /\ [][CleanupNext]_vars

PoolStart ==
    /\ PoolInit
    /\ SchedIdle
    /\ QueryIdle
    /\ ClassIdle
    /\ WorkIdle
    /\ RunIdle
    /\ TransportIdle
    /\ PageIdle
    /\ TrimIdle
    /\ ProxIdle
    /\ BundleIdle
    /\ GroupIdle
    /\ DirIdle
    /\ CleanupIdle
    /\ AttrIdle
    /\ WfigsIdle

PoolSpec == PoolStart /\ [][PoolNext]_vars

SizeStart ==
    /\ SizeInit
    /\ SchedIdle
    /\ QueryIdle
    /\ ClassIdle
    /\ WorkIdle
    /\ RunIdle
    /\ TransportIdle
    /\ PageIdle
    /\ TrimIdle
    /\ ProxIdle
    /\ BundleIdle
    /\ GroupIdle
    /\ DirIdle
    /\ CleanupIdle
    /\ AttrIdle
    /\ WfigsIdle

SizeSpec == SizeStart /\ [][SizeNext]_vars

AttrStart ==
    /\ AttrInit
    /\ SchedIdle
    /\ QueryIdle
    /\ ClassIdle
    /\ WorkIdle
    /\ RunIdle
    /\ TransportIdle
    /\ PageIdle
    /\ TrimIdle
    /\ ProxIdle
    /\ BundleIdle
    /\ GroupIdle
    /\ DirIdle
    /\ CleanupIdle
    /\ PoolIdle
    /\ WfigsIdle

AttrSpec == AttrStart /\ [][AttrNext]_vars

WfigsStart ==
    /\ WfigsInit
    /\ SchedIdle
    /\ QueryIdle
    /\ ClassIdle
    /\ WorkIdle
    /\ RunIdle
    /\ TransportIdle
    /\ PageIdle
    /\ TrimIdle
    /\ ProxIdle
    /\ BundleIdle
    /\ GroupIdle
    /\ DirIdle
    /\ CleanupIdle
    /\ PoolIdle
    /\ AttrIdle

WfigsSpec == WfigsStart /\ [][WfigsNext]_vars

(***************************************************************************)
(* Claims about the analysis scheduler.                                    *)
(***************************************************************************)
\* the processes whose put has returned
HavePut == {p \in 1..nprocs : proc_state[p] \in {"put_done", "exited"}}

\* the number of times item p occurs in sequence s
Occurrences(s, p) == Cardinality({x \in DOMAIN s : s[x] = p})

\* the processes between p.start() and exit
Running == {p \in 1..nprocs : proc_state[p] \in {"running", "put_done"}}

\* the wave (0-based) a process belongs to
Wave(p) == (p - 1) \div batch_size

\* C1: under fair scheduling of the scheduler and of every started worker,
\* gather_results completes every wave and returns, whatever the capacity of
\* the result channel (a worker blocked on a full channel is unblocked by the
\* scheduler's drain).
C1_GatherResultsReturns == <>(pc = "return")

\* C1 witness: gather_results has returned from a run in which a worker was
\* blocked on a full channel and the wave put more payloads than the channel holds.
C1_Witness ==
    /\ pc = "return"
    /\ backlog
    /\ capacity < Min(batch_size, nprocs)

\* C2: when gather_results returns, every item a worker put is in the
\* returned list exactly once and the channel is empty.
C2_AllCollectedOnce ==
    pc = "return" =>
        /\ manager_queue = <<>>
        /\ HavePut = 1..nprocs
        /\ Len(process_results) = nprocs
        /\ \A p \in 1..nprocs : Occurrences(process_results, p) = 1

\* C2 witness: a return after an item was put following a failed
\* non-blocking get of the same poll iteration.
C2_Witness ==
    /\ pc = "return"
    /\ late_put
    /\ nprocs >= 2
    /\ Len(process_results) = nprocs

\* C3: while the scheduler is in the join loop, every worker of the wave has
\* exited, the poll iteration it left observed all_exited, and the channel is
\* empty: join never blocks on a running worker or with an item undrained.
C3_JoinOnlyAfterDrained ==
    pc = "join" =>
        /\ all_exited
        /\ \A p \in Batch(i) : proc_state[p] = "exited"
        /\ manager_queue = <<>>

\* C3 witness: the scheduler is in the middle of joining a wave of two
\* workers whose results it had to drain.
C3_Witness ==
    /\ pc = "join"
    /\ BatchLen(i) >= 2
    /\ k = 1
    /\ Len(process_results) >= 2
    /\ backlog

\* C4: processes are run in consecutive waves of at most batch_size, each
\* started exactly once, never more than batch_size running, and a later
\* wave starts only after the previous waves have exited and been joined.
C4_Waves ==
    /\ \A p \in 1..nprocs : starts[p] <= 1
    /\ pc = "return" => \A p \in 1..nprocs : starts[p] = 1
    /\ Cardinality(Running) <= batch_size
    /\ \A p, q \in 1..nprocs : (p < q /\ starts[q] > 0) => starts[p] > 0
    /\ \A p, q \in 1..nprocs :
          (Wave(p) < Wave(q) /\ starts[q] > 0) =>
              (proc_state[p] = "exited" /\ joined[p])
    /\ pc \in {"start", "get", "check", "empty", "join"} =>
          /\ i % batch_size = 0
          /\ BatchLen(i) \in 1..batch_size
          /\ \A p \in 1..nprocs : (starts[p] > 0 /\ ~joined[p]) => p \in Batch(i)

\* C4 witness: a worker of the second wave is running while the first wave
\* of batch_size workers has been joined.
C4_Witness ==
    /\ i > 0
    /\ batch_size >= 2
    /\ \E p \in Batch(i) : proc_state[p] = "running"
    /\ \A p \in 1..i : joined[p]

(***************************************************************************)
(* Claims about the query fan-out.                                         *)
(***************************************************************************)
\* what bundle b's query must yield, from what the source delivered to it alone
ExpectedOutcome(b) ==
    IF log[b].raised # "none"
    THEN <<Bundles[b][1], Bundles[b][2],
           [tag |-> "tuple", keys |-> {}, feats |-> <<>>, head |-> log[b].raised]>>
    ELSE IF log[b].raw
    THEN <<Bundles[b][1], Bundles[b][2],
           [tag |-> "dict", keys |-> {"error"}, feats |-> <<>>, head |-> "none"]>>
    ELSE <<Bundles[b][1], Bundles[b][2],
           [tag |-> "dict", keys |-> {"features"},
            feats |-> [x \in 1..log[b].nfeat |-> PageFeature], head |-> "none"]>>

\* C5: the fan-out yields exactly one outcome per bundle, in order; a bundle
\* whose paginated query raised yields (fire id, alias, reduced exception),
\* every other bundle yields (fire id, alias, response) as determined by its
\* own responses alone; a failed task neither closes the session nor stops a
\* sibling.
C5_FailureIsolation ==
    /\ \A b \in BundleIds : task_pc[b] = "done" => outcome[b] = ExpectedOutcome(b)
    /\ query_responses.bound =>
          /\ Len(query_responses.value) = Len(Bundles)
          /\ \A b \in BundleIds : query_responses.value[b] = ExpectedOutcome(b)
    /\ hpc = "gather" => session = "open"
    /\ \A b \in BundleIds :
          (hpc = "gather" /\ task_pc[b] # "done") => task_pc[b] \in {"request", "sleep"}

\* C5 witness: the call returned with the first bundle failed and its
\* sibling's two pages of features intact.
C5_Witness ==
    /\ call_result.kind = "returned"
    /\ call_result.responses[1][3].tag = "tuple"
    /\ call_result.responses[2][3].tag = "dict"
    /\ Len(call_result.responses[2][3].feats) = 2

\* C6 (as claimed): send_all_queries always returns the pair (outcome list,
\* fatal exception or None); a failure of the harness inside the requester
\* context arrives in the second slot and the call does not raise.
C6_AlwaysReturnsPair ==
    hpc = "done" =>
        /\ call_result.kind = "returned"
        /\ body_exception # "none" => call_result.exception = body_exception

(***************************************************************************)
(* Claims about the response classifier.                                   *)
(***************************************************************************)
\* the ring levels of a fire
RingSet == {0, 1, 3, 5}

\* the attribute names a directive determines for an alias (the names
\* batch_write_attr_tups enumerates), written out per analysis type
DirectiveNames(var_alias, at) ==
       (IF "FEATURE_COUNT" \in at.keys THEN {var_alias \o "_feat_count"} ELSE {})
    \cup (IF "TOTAL_ACRES" \in at.keys THEN {var_alias \o "_total_acres"} ELSE {})
    \cup (IF "TOTAL_LENGTH_FT" \in at.keys THEN {var_alias \o "_total_feet"} ELSE {})
    \cup (IF "ACRES_SUM_FIELDS" \in at.keys
          THEN {var_alias \o "_" \o f \o "_acres_sum" : f \in Range(at.fields["ACRES_SUM_FIELDS"])}
          ELSE {})
    \cup (IF "LENGTH_FT_SUM_FIELDS" \in at.keys
          THEN {var_alias \o "_" \o f \o "_feet_sum" : f \in Range(at.fields["LENGTH_FT_SUM_FIELDS"])}
          ELSE {})
    \cup (IF "VALUE_SUM_FIELDS" \in at.keys
          THEN {var_alias \o "_" \o f \o "_value_sum" : f \in Range(at.fields["VALUE_SUM_FIELDS"])}
          ELSE {})
    \cup (IF "ATTR_COUNT_FIELDS" \in at.keys
          THEN {var_alias \o "_" \o f \o "_attr_count" : f \in Range(at.fields["ATTR_COUNT_FIELDS"])}
          ELSE {})

\* the names of the two proximity attributes, when the directive asks for them
ProximityNames(var_alias, at) ==
    IF "NEAREST_FEATS_FIELDS" \in at.keys
    THEN {var_alias \o "_nearest_feats", var_alias \o "_interior_feats"}
    ELSE {}

\* all tuples of a list of tuple lists
RECURSIVE Flatten(_)
Flatten(lists) ==
    IF lists = <<>> THEN {} ELSE Range(Head(lists)) \cup Flatten(Tail(lists))

\* the bypass tuples emitted so far for (identifier, var_alias)
BypassTuplesOf(identifier, var_alias) ==
    {t \in Flatten(results_no_analysis) :
        /\ t[1] = identifier
        /\ t[3] \in DirectiveNames(var_alias, analysis_plan[var_alias])
                    \cup ProximityNames(var_alias, analysis_plan[var_alias])}

\* the (alias, subset) entries accumulated so far for (identifier, var_alias)
EntriesOf(identifier, var_alias) ==
    {<<x, y>> \in UNION {{<<x1, y1>> : y1 \in DOMAIN query_features_dict[x1].pairs} :
                            x1 \in DOMAIN query_features_dict} :
        /\ query_features_dict[x].identifier = identifier
        /\ query_features_dict[x].pairs[y][1] = var_alias}

\* the bypass tuples of (identifier, var_alias) form a complete set: every
\* directive attribute at every ring level, and the proximity attributes at ring 0
CompleteBypass(identifier, var_alias) ==
    LET at == analysis_plan[var_alias]
        tups == BypassTuplesOf(identifier, var_alias)
    IN  /\ \A r \in RingSet : \A n \in DirectiveNames(var_alias, at) :
              \E t \in tups : t[2] = r /\ t[3] = n
        /\ \A n \in ProximityNames(var_alias, at) :
              \E t \in tups : t[2] = 0 /\ t[3] = n

\* the responses handled so far that are not harness-level errors
HandledTriples == {j \in 1..ci : chunk[j].shape = "triple"}

\* C7 (as claimed): every handled outcome that is no harness-level error
\* either added exactly one (alias, subset) entry to its fire's accumulation
\* and no bypass tuple, or added a complete bypass tuple set and no entry.
C7_ExhaustiveClassification ==
    \A j \in HandledTriples :
        LET entries == EntriesOf(chunk[j].identifier, chunk[j].var_alias)
            tups == BypassTuplesOf(chunk[j].identifier, chunk[j].var_alias)
        IN  \/ Cardinality(entries) = 1 /\ tups = {}
            \/ entries = {} /\ tups # {}
                  /\ CompleteBypass(chunk[j].identifier, chunk[j].var_alias)

\* a per-query failure: an exception captured while querying
IsCapturedException(r) == r.shape = "triple" /\ r.data.tag = "tuple"

\* a per-query failure: an error payload returned by the source
IsErrorPayload(r) ==
    r.shape = "triple" /\ r.data.tag = "dict" /\ r.data.keys = {"error"}

\* every directive attribute of response r has, at each of the four ring
\* levels, a bypass tuple with the given value
ComplementWith(r, value) ==
    \A ring \in RingSet :
        \A n \in DirectiveNames(r.var_alias, analysis_plan[r.var_alias]) :
            <<r.identifier, ring, n, value>> \in Flatten(results_no_analysis)

UnitNames(u) ==
    IF u.target = "_nearest_feats_analysis"
    THEN ProximityNames(u.var_alias, u.analysis_types)
    ELSE DirectiveNames(u.var_alias, u.analysis_types)

\* C10: a work unit whose analyzer raises puts exactly one result on the
\* channel; the result holds exactly one tuple for every attribute name of
\* the unit's directive (for a proximity unit the nearest and the interior
\* name), every tuple carries an error value, the unit's fire id and the
\* unit's ring level; and a unit that has finished has put exactly once.
C10_RaisingUnitPutsFullErrorSet ==
    /\ wpc = "done" => Len(channel) = 1
    /\ wpc # "done" => channel = <<>>
    /\ raised =>
          /\ Len(channel) = 1
          /\ {t[3] : t \in Range(channel[1])} = UnitNames(unit)
          /\ Len(channel[1]) = Cardinality(UnitNames(unit))
          /\ \A t \in Range(channel[1]) :
                /\ t[1] = unit.identifier
                /\ t[2] = unit.buf_dist
                /\ t[4].kind = "exception"

\* C10 witness: a line unit whose directive names fields raised after its
\* try body had appended tuples, and a result is on the channel.
C10_Witness ==
    /\ raised
    /\ wpc = "done"
    /\ unit.target = "_analyze_line_var"
    /\ wb = 4
    /\ "FEATURE_COUNT" \in unit.analysis_types.keys
    /\ Len(channel) = 1
    /\ Len(channel[1]) >= 5

(***************************************************************************)
(* Claims about a run.                                                     *)
(***************************************************************************)
\* C8 (as claimed): at the end of a run, for every queried (fire, dataset)
\* pair and every ring level, the merged tuple list holds a tuple for every
\* attribute name the dataset's directive determines.
C8_Completeness ==
    rpc = "done" =>
        \A j \in DOMAIN chunk :
            \A ring \in RingSet :
                \A n \in DirectiveNames(RunBundles[j][2], analysis_plan[RunBundles[j][2]]) :
                    \E t \in Flatten(results) :
                        t[1] = RunBundles[j][1] /\ t[2] = ring /\ t[3] = n

\* the harness-level errors among the run's query responses
HarnessErrors == {j \in DOMAIN chunk : chunk[j].shape = "reduced_exception"}

\* the run's query responses without the harness-level errors
WithoutHarnessErrors ==
    SelectSeq(chunk, LAMBDA r : r.shape # "reduced_exception")

\* C11: once the classifier has handled outcomes that hold a harness-level
\* error, it has recorded one critical message per such error, its tuples
\* and analyzable input are those of the other outcomes alone, and main has
\* exited with status 1: no work unit was created, no result was collected
\* or merged, and no edit was sent to the output service.
C11_HarnessErrorExitsRun ==
    (HarnessErrors # {} /\ rpc # "classify") =>
        /\ Len(logger_dict.critical) = Cardinality(HarnessErrors)
        /\ query_features_dict =
              handle_query_responses(WithoutHarnessErrors, analysis_plan).query_features_dict
        /\ results_no_analysis =
              handle_query_responses(WithoutHarnessErrors, analysis_plan).results_no_analysis
        /\ rpc = "exit1"
        /\ all_processes = <<>>
        /\ ran = {}
        /\ results = <<>>
        /\ ~edits_sent

\* C11 witness: main has exited on a harness-level error handed over next
\* to a response with features to analyze.
C11_Witness ==
    /\ rpc = "exit1"
    /\ chunk[2].shape = "reduced_exception"
    /\ chunk[1].shape = "triple"
    /\ query_features_dict # <<>>
    /\ logger_dict.critical # <<>>
    /\ all_processes = <<>>

(***************************************************************************)
(* Claims about the transport.                                             *)
(***************************************************************************)
\* the requests of a call ahead of its last one
EarlierRequests == 1..(Len(delivered) - 1)

\* C12: a call of arcgis_rest_api_get or arcgis_rest_api_post issues at
\* most 3 requests; it returns the body of its first request that succeeds,
\* every request before that one having failed with a client error; the
\* sleeps after the failed attempts 1 and 2 last 1 and 2 time units; and a
\* client error on the 3rd attempt is raised to the caller with no third
\* sleep.
C12_TransportRetry ==
    /\ Len(delivered) <= 3
    /\ \A x \in EarlierRequests : delivered[x] \in ClientErrors
    /\ \A x \in DOMAIN sleeps : sleeps[x] = 2 ^ (x - 1)
    /\ Len(sleeps) <= 2
    /\ tpc = "returned" =>
          /\ delivered[Len(delivered)] \in {"body_a", "body_b"}
          /\ transport_result.kind = "returned"
          /\ transport_result.value.body = delivered[Len(delivered)]
          /\ Len(sleeps) = Len(delivered) - 1
    /\ tpc = "raised" =>
          /\ transport_result.kind = "raised"
          /\ transport_result.value.body = delivered[Len(delivered)]
          /\ Len(sleeps) = Len(delivered) - 1
          /\ delivered[Len(delivered)] \in ClientErrors => Len(delivered) = 3
    /\ tpc = "sleep" => Len(sleeps) = Len(delivered)
    /\ tpc = "request" => Len(sleeps) = Len(delivered)

\* C12 witness: a POST call whose three requests failed with client errors
\* has raised after sleeping 1 and 2 time units.
C12_Witness ==
    /\ tpc = "raised"
    /\ request_args.method = "post"
    /\ Len(delivered) = 3
    /\ sleeps = <<1, 2>>
    /\ transport_result.value.body \in ClientErrors

(***************************************************************************)
(* Claims about pagination.                                                *)
(***************************************************************************)
\* the features of the first x pages, in request order
RECURSIVE ConcatPages(_)
ConcatPages(x) ==
    IF x = 0 THEN <<>> ELSE ConcatPages(x - 1) \o pages[x].feats

\* C13 (as claimed): a page with features on which the source does not
\* signal truncation (exceededTransferLimit absent or not true) is the last
\* page requested, and the call has returned the features accumulated so far.
C13_StopsWithoutTruncationSignal ==
    \A x \in DOMAIN pages :
        ("features" \in pages[x].keys /\ pages[x].exceeded # "true") =>
            /\ x = Len(pages)
            /\ Len(offsets) = Len(pages)
            /\ ppc = "returned"
            /\ page_result = PageReturn(Payload({"features"}, ConcatPages(x), "absent"))

\* the page size the source's layer info determines
PageSize == IF props_had_count THEN LayerRecordCount ELSE 1000

\* C14: the query? requests carry the offsets 0, n, 2n, ... with n the
\* source's maxRecordCount or 1000; a page is requested only after pages
\* that all held features; a call that returns after a page without a
\* 'features' key returns that page's payload as it came, and no page was
\* requested after it; any other returning call returns
\* {'features': the features of all pages in request order}.
C14_PaginationResult ==
    /\ \A x \in DOMAIN offsets : offsets[x] = (x - 1) * PageSize
    /\ Len(pages) <= Len(offsets)
    /\ Len(offsets) <= Len(pages) + 1
    /\ \A x \in DOMAIN pages : x < Len(offsets) => "features" \in pages[x].keys
    /\ \A x \in DOMAIN pages :
          "features" \notin pages[x].keys =>
              /\ x = Len(pages)
              /\ Len(offsets) = x
              /\ page_result = PageReturn(pages[x])
    /\ ppc = "returned" =>
          /\ Len(offsets) = Len(pages)
          /\ Len(pages) >= 1
          /\ "features" \in pages[Len(pages)].keys =>
                page_result = PageReturn(Payload({"features"}, ConcatPages(Len(pages)), "absent"))

\* C14 witness: a call returned the raw payload of a second page that
\* lacked 'features', after a first page that held features.
C14_Witness ==
    /\ ppc = "returned"
    /\ Len(pages) = 2
    /\ pages[1].feats # <<>>
    /\ "features" \notin pages[2].keys
    /\ page_result.data = pages[2]
    /\ offsets = <<0, LayerRecordCount>>

(***************************************************************************)
(* Claims about the feature-set serializer.                                *)
(***************************************************************************)
\* the call returned after a search, not by the early return
Trimmed ==
    /\ trim_pc = "returned"
    /\ JsonLen(nearest_feats_fset) > NearestFeatsBudget

\* number of features of the returned serialization
Kept == Len(trim_result.value.features)

\* C15: the string _trim_nearest_feats returns is never longer than the
\* budget, a feature set whose full serialization fits is returned as that
\* serialization unchanged, and the call never ends without a value (it never
\* reads best_serialized unassigned).
C15_SerializerBudget ==
    /\ trim_pc # "raised"
    /\ trim_nearest_feats(nearest_feats_fset, NearestFeatsBudget).bound
    /\ trim_pc = "returned" =>
          /\ trim_result.bound
          /\ JsonLen(trim_result.value) <= NearestFeatsBudget
          /\ JsonLen(nearest_feats_fset) <= NearestFeatsBudget =>
                trim_result.value = nearest_feats_fset

\* a call returned a trimmed set that keeps a feature
C15_Witness ==
    /\ Trimmed
    /\ Kept >= 1

\* C16: when the full serialization exceeds the budget, the returned string
\* is the candidate of the longest prefix that fits: its features are the
\* first Kept features of the input in order, the candidate one feature
\* longer exceeds the budget, and no longer candidate fits.
C16_MaximumPrefix ==
    Trimmed =>
        /\ trim_result.value = TestDict(nearest_feats_fset, Kept)
        /\ trim_result.value.features = SubSeq(nearest_feats_fset.features, 1, Kept)
        /\ Kept < Len(nearest_feats_fset.features)
        /\ JsonLen(TestDict(nearest_feats_fset, Kept + 1)) > NearestFeatsBudget
        /\ \A m \in 0..Len(nearest_feats_fset.features) :
              JsonLen(TestDict(nearest_feats_fset, m)) <= NearestFeatsBudget => m <= Kept

\* a search over three features settled on a prefix that is neither empty
\* nor all but one
C16_Witness ==
    /\ Trimmed
    /\ Len(nearest_feats_fset.features) = 3
    /\ Kept = 1

\* C17: in every trimmed result the popped count is (input length - kept
\* features) + baseline popped and the cutoff is the dist_mi of the last
\* kept feature, for every number of kept features, zero included.
C17_PoppedAndCutoff ==
    Trimmed =>
        /\ trim_result.value.popped =
              (Len(nearest_feats_fset.features) - Kept) + nearest_feats_fset.popped
        /\ \E x \in 1..Len(nearest_feats_fset.features) :
              /\ x = Kept
              /\ trim_result.value.cutoff =
                    NumValue(nearest_feats_fset.features[x].dist_mi)

\* number of features _trim_nearest_feats keeps of the call's feature set
\* when the budget is max_length
KeptUnder(max_length) ==
    Len(trim_nearest_feats(nearest_feats_fset, max_length).value.features)

\* C18: for the same feature set, the search under a smaller budget never
\* keeps more features than the search under a larger budget.
C18_SerializerMonotonicity ==
    \A smaller \in Budgets, larger \in Budgets :
        smaller < larger =>
            /\ trim_nearest_feats(nearest_feats_fset, smaller).bound
            /\ trim_nearest_feats(nearest_feats_fset, larger).bound
            /\ KeptUnder(smaller) <= KeptUnder(larger)

\* a call returned for a feature set of which each larger budget keeps
\* strictly more features
C18_Witness ==
    /\ trim_pc = "returned"
    /\ \A smaller \in Budgets, larger \in Budgets :
          smaller < larger => KeptUnder(smaller) < KeptUnder(larger)
    /\ Kept = KeptUnder(NearestFeatsBudget)

(***************************************************************************)
(* Claims about the proximity analyzer.                                    *)
(***************************************************************************)
\* the positions of the tuples named `name` in a list of tuple lists
NamedIn(lists, name) ==
    {<<x, y>> \in UNION {{<<x1, y1>> : y1 \in DOMAIN lists[x1]} : x1 \in DOMAIN lists} :
        lists[x][y][3] = name}

\* C19: no tuple a proximity unit puts on the queue carries a serialized
\* feature set whose feature list is empty; a tuple for which no feature is
\* kept, trimming included, carries None.
C19_NoEmptySerializedFeatureSet ==
    \A x \in DOMAIN prox_queue : \A y \in DOMAIN prox_queue[x] :
        prox_queue[x][y][4].kind = "json" =>
            prox_queue[x][y][4].fset.features # <<>>

\* the lists `lists` hold exactly one tuple of each proximity name of the
\* unit, both at ring level 0 with the unit's fire id
TwoProximityTuples(lists) ==
    \A name \in {prox_unit.var_alias \o "_nearest_feats",
                 prox_unit.var_alias \o "_interior_feats"} :
        /\ Cardinality(NamedIn(lists, name)) = 1
        /\ \A p \in NamedIn(lists, name) :
              /\ lists[p[1]][p[2]][1] = prox_unit.identifier
              /\ lists[p[1]][p[2]][2] = 0

\* C20: a proximity unit that finished has put one list of exactly two
\* tuples, one named <alias>_nearest_feats and one <alias>_interior_feats,
\* both at ring level 0 with the unit's fire id, whether it had no
\* candidates, completed or raised, and puts nothing before; a bypass of
\* the classifier for the bundle holds each of the two names exactly once,
\* at ring level 0 with the fire id.
C20_ExactlyTwoProximityTuples ==
    /\ prox_pc \in {"classify", "start", "interior", "nearest", "put"} =>
          prox_queue = <<>>
    /\ prox_pc = "done" =>
          /\ Len(prox_queue) = 1
          /\ Len(prox_queue[1]) = 2
          /\ TwoProximityTuples(prox_queue)
    /\ prox_pc = "bypassed" =>
          /\ prox_queue = <<>>
          /\ TwoProximityTuples(prox_bypass)

\* a unit completed with a serialized feature set in each of its two tuples
C20_Witness ==
    /\ prox_pc = "done"
    /\ \A y \in DOMAIN prox_queue[1] : prox_queue[1][y][4].kind = "json"

\* the candidates of a group: interior iff the row intersects the fire
GroupRows(interior) ==
    SelectSeq(clipped_var_gdf, LAMBDA r : r.interior = interior)

\* fs is the capped feature set of the candidates `rows`: the min(50, n)
\* closest in ascending order, popped = n - kept, and with popped > 0 the
\* distance of the farthest kept feature as cutoff
CappedGroup(fs, rows) ==
    LET kept == fs.features
        dists(seq) == {seq[x].dist_mi : x \in DOMAIN seq}
        count(seq, dm) == Cardinality({x \in DOMAIN seq : seq[x].dist_mi = dm})
    IN  /\ Len(kept) = Min(50, Len(rows))
        /\ \A x \in 1..(Len(kept) - 1) : kept[x].dist_mi <= kept[x + 1].dist_mi
        /\ \A dm \in dists(kept) : count(kept, dm) <= count(rows, dm)
        /\ \A dm \in dists(rows) :
              count(kept, dm) < count(rows, dm) =>
                  \A x \in DOMAIN kept : kept[x].dist_mi <= dm
        /\ fs.popped = Len(rows) - Len(kept)
        /\ fs.popped > 0 =>
              /\ fs.cutoff = NumValue(kept[Len(kept)].dist_mi)
              /\ \A x \in DOMAIN kept : kept[x].dist_mi <= fs.cutoff.num

\* C21: each group the proximity unit has built holds the min(50, n)
\* candidates of the group closest to the fire's edge in ascending order of
\* distance, popped = n - kept and, when popped > 0, the distance of the
\* farthest kept feature as cutoff; every candidate is in exactly one group,
\* interior iff it intersects the fire.
C21_GroupsAreCapped ==
    /\ prox_pc \in {"nearest", "put"} =>
          CappedGroup(prox_fsets.interior, GroupRows(TRUE))
    /\ prox_pc = "put" =>
          /\ CappedGroup(prox_fsets.nearest, GroupRows(FALSE))
          /\ Len(prox_fsets.interior.features) + prox_fsets.interior.popped
               + Len(prox_fsets.nearest.features) + prox_fsets.nearest.popped
               = Len(clipped_var_gdf)
          /\ Len(GroupRows(TRUE)) =
                Cardinality({x \in DOMAIN clipped_var_gdf : clipped_var_gdf[x].interior})

\* a unit built both groups of more than 50 candidates each, given in
\* descending order of distance
C21_Witness ==
    /\ prox_pc = "put"
    /\ prox_fsets.interior.popped > 0
    /\ prox_fsets.nearest.popped > 1
    /\ clipped_var_gdf[1].dist_mi > clipped_var_gdf[2].dist_mi

(***************************************************************************)
(* Claims about the creation of work units.                                *)
(***************************************************************************)
\* the bundles of the chunk whose response was routed to analysis
RoutedBundles == {b \in DOMAIN chunk : chunk[b].data.feats # <<>>}

\* the analyzer matching the geometry kind of a routed bundle's features
AnalyzerOf(b) ==
    IF chunk[b].data.feats[1].geometry = "rings" THEN "_analyze_poly_var"
    ELSE IF chunk[b].data.feats[1].geometry = "paths" THEN "_analyze_line_var"
    ELSE "_analyze_point_var"

\* the created work units of bundle b with the given target
UnitsOf(b, target) ==
    {x \in DOMAIN all_processes :
        /\ all_processes[x].identifier = chunk[b].identifier
        /\ all_processes[x].var_alias = chunk[b].var_alias
        /\ all_processes[x].target = target}

WantsProximity(b) == "NEAREST_FEATS_FIELDS" \in analysis_plan[chunk[b].var_alias].keys

\* C22: gather_processes has created, for every (fire, dataset) pair routed
\* to analysis, exactly one unit per ring level 0, 1, 3, 5 running the
\* analyzer of the dataset's geometry kind, and exactly one proximity unit
\* iff the alias's directive requests nearest features; there are no other
\* units.
C22_WorkUnitsCreated ==
    rpc = "analysis" =>
        /\ \A b \in RoutedBundles :
              /\ \A ring \in {0, 1, 3, 5} :
                    Cardinality({x \in UnitsOf(b, AnalyzerOf(b)) :
                                    all_processes[x].buf_dist = ring}) = 1
              /\ Cardinality(UnitsOf(b, AnalyzerOf(b))) = 4
              /\ Cardinality(UnitsOf(b, "_nearest_feats_analysis"))
                    = IF WantsProximity(b) THEN 1 ELSE 0
        /\ \A x \in DOMAIN all_processes :
              \E b \in RoutedBundles :
                  x \in UnitsOf(b, AnalyzerOf(b)) \cup UnitsOf(b, "_nearest_feats_analysis")

\* units were created for an areal pair and a linear pair of one fire, one
\* with and one without a proximity unit
C22_Witness ==
    /\ rpc = "analysis"
    /\ \E b \in RoutedBundles, c \in RoutedBundles :
          /\ chunk[b].identifier = chunk[c].identifier
          /\ AnalyzerOf(b) = "_analyze_poly_var"
          /\ AnalyzerOf(c) = "_analyze_line_var"
          /\ WantsProximity(b)
          /\ ~WantsProximity(c)
    /\ Len(all_processes) >= 9

(***************************************************************************)
(* Claims about the merge step.                                            *)
(***************************************************************************)
\* the lists with the lists at x and x + 1 in each other's place
SwapAt(lists, x) ==
    [y \in DOMAIN lists |->
        IF y = x THEN lists[x + 1] ELSE IF y = x + 1 THEN lists[x] ELSE lists[y]]

\* C23: the attribute table of the merge step does not depend on the order
\* the result lists arrived in: it is the table of the same lists with any
\* two neighbours exchanged, and each of its cells is the value of the
\* tuple with that fire, ring level and attribute name.
C23_TableIndependentOfArrivalOrder ==
    rpc = "done" =>
        /\ ~attribute_dataframe.raised
        /\ \A x \in 1..(Len(results) - 1) :
              create_attribute_dataframe(SwapAt(results, x)) = attribute_dataframe
        /\ \A t \in Flatten(results) :
              attribute_dataframe.cells[<< <<t[2], t[1]>>, t[3] >>] = t[4]

\* the table was built of the lists of five work units, the last created
\* of which arrived first
C23_Witness ==
    /\ rpc = "done"
    /\ Len(all_processes) = 5
    /\ results[1] # <<>>
    /\ results[1][1][2] = 5
    /\ Len(attribute_dataframe.index) = 4

(***************************************************************************)
(* Claims about the bypass complement.                                     *)
(***************************************************************************)
\* the positions in results_no_analysis of the tuples of a fire, ring level
\* and attribute name
BypassPositions(identifier, ring, name) ==
    {<<x, y>> \in UNION {{<<x1, y1>> : y1 \in DOMAIN results_no_analysis[x1]} :
                            x1 \in DOMAIN results_no_analysis} :
        /\ results_no_analysis[x][y][1] = identifier
        /\ results_no_analysis[x][y][2] = ring
        /\ results_no_analysis[x][y][3] = name}

\* an empty feature collection or an error outcome
IsBypassed(r) ==
    /\ r.shape = "triple"
    /\ \/ r.data.tag = "tuple"
       \/ r.data.tag = "dict" /\ "features" \notin r.data.keys
       \/ r.data.tag = "dict" /\ "features" \in r.data.keys /\ r.data.feats = <<>>

\* the value of the case: null for an empty collection, else its sentinel
CaseValue(r) ==
    IF r.data.tag = "tuple" THEN [kind |-> "str", text |-> "!EXCEPTION!", num |-> 0]
    ELSE IF r.data.keys = {"error"} THEN [kind |-> "str", text |-> "!QUERYERROR!", num |-> 0]
    ELSE IF "features" \in r.data.keys THEN [kind |-> "None", text |-> "", num |-> 0]
    ELSE [kind |-> "str", text |-> "!UNEXPECTED!", num |-> 0]

\* the number of tuples in the complements of the first n responses
RECURSIVE ComplementSize(_)
ComplementSize(n) ==
    IF n = 0 THEN 0
    ELSE ComplementSize(n - 1)
         + (IF IsBypassed(chunk[n])
            THEN 4 * Cardinality(DirectiveNames(chunk[n].var_alias,
                                                analysis_plan[chunk[n].var_alias]))
                 + Cardinality(ProximityNames(chunk[n].var_alias,
                                              analysis_plan[chunk[n].var_alias]))
            ELSE 0)

\* C24: for every handled empty feature collection or error outcome of
\* (fire, alias), results_no_analysis holds exactly one tuple per directive
\* attribute at each ring level 0, 1, 3 and 5 (the two proximity
\* attributes, which exist at ring level 0 only, once at ring level 0), each
\* with the fire id and the value of the case, and no tuple besides.
C24_BypassComplement ==
    /\ \A b \in 1..ci :
          IsBypassed(chunk[b]) =>
              LET r == chunk[b]
                  at == analysis_plan[r.var_alias]
              IN  /\ \A ring \in RingSet : \A n \in DirectiveNames(r.var_alias, at) :
                        /\ Cardinality(BypassPositions(r.identifier, ring, n)) = 1
                        /\ \A p \in BypassPositions(r.identifier, ring, n) :
                              results_no_analysis[p[1]][p[2]][4] = CaseValue(r)
                  /\ \A n \in ProximityNames(r.var_alias, at) :
                        /\ Cardinality(BypassPositions(r.identifier, 0, n)) = 1
                        /\ \A p \in BypassPositions(r.identifier, 0, n) :
                              results_no_analysis[p[1]][p[2]][4] = CaseValue(r)
    /\ Cardinality(UNION {{<<x, y>> : y \in DOMAIN results_no_analysis[x]} :
                             x \in DOMAIN results_no_analysis}) = ComplementSize(ci)

\* the classifier has handled an empty feature collection and an
\* unexpected payload for aliases whose directives name fields, one of
\* them with nearest features
C24_Witness ==
    /\ cpc = "done"
    /\ Len(chunk) = 2
    /\ IsBypassed(chunk[1]) /\ CaseValue(chunk[1]).kind = "None"
    /\ IsBypassed(chunk[2]) /\ CaseValue(chunk[2]).text = "!UNEXPECTED!"
    /\ "NEAREST_FEATS_FIELDS" \in analysis_plan[chunk[1].var_alias].keys
    /\ "ATTR_COUNT_FIELDS" \in analysis_plan[chunk[2].var_alias].keys

(***************************************************************************)
(* Claims about the query bundles.                                         *)
(***************************************************************************)
\* the positions of the bundles tagged with a fire id and an alias
BundlesTagged(irwin, alias) ==
    {p \in DOMAIN query_bundles :
        query_bundles[p][1] = irwin /\ query_bundles[p][2] = alias}

\* the bounding box of a fire's vertices, widened by five miles
MaxRingEnvelope(fire) ==
    LET xs == {p[1] : p \in fire.geometry.pts}
        ys == {p[2] : p \in fire.geometry.pts}
    IN  [xmin |-> SetMin(xs) - 8047, ymin |-> SetMin(ys) - 8047,
         xmax |-> SetMax(xs) + 8047, ymax |-> SetMax(ys) + 8047, wkid |-> 3338]

\* C25: once gather_query_bundles has returned there are |fires| x
\* |templates| bundles, and for every fire and every template exactly one
\* bundle is tagged with the fire's id and the template's alias; its query
\* geometry is the envelope of the fire's five-mile ring.
C25_OneBundlePerFireAndTemplate ==
    bundle_pc = "done" =>
        /\ Len(query_bundles) = Len(new_fires_gdf) * Len(query_plan)
        /\ \A a \in DOMAIN new_fires_gdf : \A b \in DOMAIN query_plan :
              /\ Cardinality(BundlesTagged(new_fires_gdf[a].IrwinID,
                                           query_plan[b].ALIAS)) = 1
              /\ \A p \in BundlesTagged(new_fires_gdf[a].IrwinID, query_plan[b].ALIAS) :
                    /\ query_bundles[p][4].geometry = MaxRingEnvelope(new_fires_gdf[a])
                    /\ query_bundles[p][3] = query_plan[b].URL

\* bundles have been gathered for two fires and two templates, one of
\* which brings a geometry parameter of its own
C25_Witness ==
    /\ bundle_pc = "done"
    /\ Len(new_fires_gdf) = 2
    /\ Len(query_plan) = 2
    /\ Len(query_bundles) = 4
    /\ \E b \in DOMAIN query_plan : "geometry" \in DOMAIN query_plan[b].QUERY_PARAMETERS

(***************************************************************************)
(* Claims about the grouped sums.                                          *)
(***************************************************************************)
\* the group key a row contributes to: "No Data" for a null or blank
\* attribute
KeyOfRow(row) ==
    IF row.attr.null \/ row.attr.text \in {"", " "} THEN "No Data" ELSE row.attr.text

\* the sum of the measures of the rows that contribute to a key
RECURSIVE Contribution(_, _)
Contribution(rows, key) ==
    IF rows = <<>> THEN 0
    ELSE (IF KeyOfRow(Head(rows)) = key THEN Head(rows).measure ELSE 0)
         + Contribution(Tail(rows), key)

\* C27 (as claimed): the returned dict has one key per group key of the
\* clipped rows, where every row with a null or blank attribute contributes
\* to "No Data", and the value of a key is the sum, rounded to hundredths
\* of an acre or cut to whole feet, over all the rows that contribute to it.
C27_NoDataGroupKeepsEveryRow ==
    group_pc = "done" =>
        /\ DOMAIN group_sums = {KeyOfRow(group_gdf[r]) : r \in DOMAIN group_gdf}
        /\ \A key \in DOMAIN group_sums :
              group_sums[key] =
                  IF group_kind = "acres"
                  THEN (Contribution(group_gdf, key) + 5) \div 10
                  ELSE Contribution(group_gdf, key) \div 10

(***************************************************************************)
(* Claims about the compass label.                                         *)
(***************************************************************************)
\* the 16 compass labels, clockwise from north, with the sine and the
\* cosine of their bearings in millionths
CompassLabels ==
    <<"N", "NNE", "NE", "ENE", "E", "ESE", "SE", "SSE",
      "S", "SSW", "SW", "WSW", "W", "WNW", "NW", "NNW">>

BearingSinE6 ==
    <<0, 382683, 707107, 923880, 1000000, 923880, 707107, 382683,
      0, -382683, -707107, -923880, -1000000, -923880, -707107, -382683>>

BearingCosE6 ==
    <<1000000, 923880, 707107, 382683, 0, -382683, -707107, -923880,
      -1000000, -923880, -707107, -382683, 0, 382683, 707107, 923880>>

\* the length of the step from point_a to point_b along the bearing of a
\* label: greatest for the label whose bearing is nearest to the step's
\* (the bearings are 22.5 degrees apart, so that label's sector holds it)
Along(label) ==
    (point_b[1] - point_a[1]) * BearingSinE6[label]
    + (point_b[2] - point_a[2]) * BearingCosE6[label]

\* C28: _get_cardinal_direction returns "None" for two points that
\* coincide and "N" when the second is due north of the first; for any
\* other pair it returns one of the 16 compass labels, the one whose
\* 22.5-degree sector centred on its bearing holds the bearing from the
\* first point to the second.
C28_CardinalDirection ==
    dir_pc = "done" =>
        /\ point_a = point_b => direction = "None"
        /\ (point_a[1] = point_b[1] /\ point_b[2] > point_a[2]) => direction = "N"
        /\ point_a # point_b =>
              \E label \in DOMAIN CompassLabels :
                  /\ direction = CompassLabels[label]
                  /\ \A other \in DOMAIN CompassLabels \ {label} :
                        Along(label) > Along(other)

\* a step of (1, 5), 11.31 degrees east of north, was labelled NNE
C28_Witness ==
    /\ dir_pc = "done"
    /\ point_b[1] - point_a[1] = 1
    /\ point_b[2] - point_a[2] = 5
    /\ direction = "NNE"

(***************************************************************************)
(* Claims about the ring reconstruction.                                   *)
(***************************************************************************)
\* the area a closed vertex list encloses, by the surveyor's formula
RECURSIVE TwiceSigned(_)
TwiceSigned(coords) ==
    IF Len(coords) < 2 THEN 0
    ELSE coords[1][1] * coords[2][2] - coords[2][1] * coords[1][2]
         + TwiceSigned(Tail(coords))

Enclosed(coords) ==
    (IF TwiceSigned(coords) < 0 THEN 0 - TwiceSigned(coords) ELSE TwiceSigned(coords)) \div 2

\* every vertex of one ring lies strictly within the bounding box of the
\* other, and the other's squares cover the first's
Inside(hole, boundary) ==
    /\ PolygonRegion(hole) \subseteq PolygonRegion(boundary)
    /\ \A n \in DOMAIN hole : hole[n] \notin {boundary[m] : m \in DOMAIN boundary}

\* the encoding is a boundary ring and a hole ring inside it, in this or
\* in the other order
BoundaryAndHole(b, h) ==
    /\ Len(rings) = 2
    /\ rings[b] # rings[h]
    /\ Inside(rings[h], rings[b])

\* C29: for an encoding of one boundary ring and one hole ring inside it,
\* in either order and with either winding of each, the area of the
\* reconstructed geometry is the area the boundary encloses less the area
\* the hole encloses.
C29_AreaIsBoundaryLessHole ==
    cleanup_pc = "done" =>
        \A b, h \in DOMAIN rings :
            BoundaryAndHole(b, h) =>
                Area(output_polygon) = Enclosed(rings[b]) - Enclosed(rings[h])

\* a counter-clockwise hole listed ahead of a clockwise L-shaped boundary
\* has been reconstructed
C29_Witness ==
    /\ cleanup_pc = "done"
    /\ Len(rings) = 2
    /\ BoundaryAndHole(2, 1)
    /\ TwiceSigned(rings[1]) > 0
    /\ TwiceSigned(rings[2]) < 0
    /\ Len(rings[2]) = 7
    /\ Area(output_polygon) = 32

(***************************************************************************)
(* Claims about the tuples of the analyzers.                               *)
(***************************************************************************)
\* the try body of the unit's analyzer ran to its put
SucceededNonEmpty ==
    /\ wpc = "done"
    /\ ~raised
    /\ wb > Len(Blocks(unit.target))

\* the number of operations and fields of a directive, the proximity
\* fields (which the proximity unit handles) left aside
RECURSIVE FieldCount(_, _)
FieldCount(at, keys) ==
    IF keys = {} THEN 0
    ELSE LET key == CHOOSE c \in keys : TRUE
         IN  (IF key \in {"FEATURE_COUNT", "TOTAL_ACRES", "TOTAL_LENGTH_FT"}
              THEN 1 ELSE Len(at.fields[key]))
             + FieldCount(at, keys \ {key})

OperationsAndFields(at) == FieldCount(at, at.keys \ {"NEAREST_FEATS_FIELDS"})

\* C26 (as claimed): an areal unit whose clip is not empty and whose
\* analyzer did not raise puts exactly one tuple per operation and field of
\* its directive, each with the unit's fire id and ring level; for the
\* directive {FEATURE_COUNT, TOTAL_ACRES} these are the two tuples named
\* <alias>_feat_count and <alias>_total_acres.
C26_ArealTuplePerOperation ==
    (SucceededNonEmpty /\ unit.target = "_analyze_poly_var") =>
        /\ Len(channel[1]) = OperationsAndFields(unit.analysis_types)
        /\ \A t \in Range(channel[1]) :
              t[1] = unit.identifier /\ t[2] = unit.buf_dist
        /\ unit.analysis_types.keys = {"FEATURE_COUNT", "TOTAL_ACRES"} =>
              [n \in DOMAIN channel[1] |-> channel[1][n][3]]
                  = <<unit.var_alias \o "_feat_count", unit.var_alias \o "_total_acres">>

\* C30 (as claimed): whichever path an areal, linear or point unit takes
\* (clip not empty and no exception, empty clip, exception), the attribute
\* names of the result it puts are the names batch_write_attr_tups
\* enumerates for the unit's directive.
C30_SameNamesOnEveryPath ==
    (wpc = "done" /\ unit.target # "_nearest_feats_analysis") =>
        {t[3] : t \in Range(channel[1])}
            = DirectiveNames(unit.var_alias, unit.analysis_types)

(***************************************************************************)
(* Claims about the merge of worker results and bypass tuples.             *)
(***************************************************************************)
\* the value of an analysis error in the merged list
AnalysisError == [kind |-> "str", text |-> "!ANALYSISERROR!", num |-> 0]

\* C31: the step of main that parses the collected results and appends the
\* bypass lists turns every tuple whose value is an exception record into
\* the tuple of the same fire id, ring level and attribute name with the
\* value '!ANALYSISERROR!', leaves every other tuple of the results as it
\* is, appends the bypass lists unchanged, and so hands no tuple with an
\* exception record to the pivot.
C31_AnalysisErrorsParsed ==
    [][(rpc = "analysis" /\ rpc' # "analysis") =>
          /\ Len(results') = Len(results) + Len(results_no_analysis)
          /\ \A x \in DOMAIN results :
                /\ Len(results'[x]) = Len(results[x])
                /\ \A y \in DOMAIN results[x] :
                      IF results[x][y][4].kind = "exception"
                      THEN results'[x][y] = <<results[x][y][1], results[x][y][2],
                                              results[x][y][3], AnalysisError>>
                      ELSE results'[x][y] = results[x][y]
          /\ \A x \in DOMAIN results_no_analysis :
                results'[Len(results) + x] = results_no_analysis[x]
          /\ \A x \in DOMAIN results' : \A y \in DOMAIN results'[x] :
                results'[x][y][4].kind # "exception"]_vars

\* the merged list holds a list with a computed number, a list of analysis
\* errors only, and a bypass list
C31_Witness ==
    /\ rpc = "done"
    /\ \E x \in DOMAIN results :
          /\ results[x] # <<>>
          /\ results[x][1][4].kind = "num"
    /\ \E x \in DOMAIN results :
          /\ results[x] # <<>>
          /\ \A y \in DOMAIN results[x] : results[x][y][4] = AnalysisError
    /\ results_no_analysis # <<>>

\* C32: an execution of an analyzer (areal, linear, point or proximity)
\* puts on the result channel in exactly one of its steps, the step that
\* ends it, whether it ends in the empty branch, at the end of the try
\* body or in the outer exception handler; a finished execution has put
\* exactly one result.
C32_OnePutPerExecution ==
    /\ [](wpc = "done" => Len(channel) = 1)
    /\ [][/\ Len(channel') = Len(channel) + 1 <=> (wpc # "done" /\ wpc' = "done")
          /\ Len(channel') \in {Len(channel), Len(channel) + 1}]_vars

\* a proximity unit ended in its outer exception handler after its try
\* body had appended a tuple
C32_Witness ==
    /\ wpc = "done"
    /\ raised
    /\ unit.target = "_nearest_feats_analysis"
    /\ wb = 2
    /\ Len(channel) = 1
    /\ Len(channel[1]) = 2

\* the tuples handed to the pivot, in order
MergedTuples == Chain(results)

\* C33: in the list main hands to the pivot no two tuples have the same
\* fire id, ring level and attribute name (there are as many different
\* triples of these as there are tuples), and no (fire, alias) pair of the
\* run has both an entry among the analysis inputs and tuples among the
\* bypass lists.
C33_MergedKeysAreUnique ==
    rpc \in {"done", "crashed", "finished"} =>
        /\ LET merged == MergedTuples
           IN  Cardinality({<<merged[p][1], merged[p][2], merged[p][3]>> :
                               p \in DOMAIN merged}) = Len(merged)
        /\ \A b \in DOMAIN RunBundles :
              \/ EntriesOf(RunBundles[b][1], RunBundles[b][2]) = {}
              \/ BypassTuplesOf(RunBundles[b][1], RunBundles[b][2]) = {}

\* a run has merged the tuples of the ring units and the proximity unit of
\* one dataset with the bypass tuples of the other
C33_Witness ==
    /\ rpc = "done"
    /\ EntriesOf(RunBundles[1][1], RunBundles[1][2]) # {}
    /\ BypassTuplesOf(RunBundles[2][1], RunBundles[2][2]) # {}
    /\ Len(all_processes) = 5
    /\ Len(results) > 5
    /\ Len(MergedTuples) >= 10

(***************************************************************************)
(* Claims about the classifier pools.                                      *)
(***************************************************************************)
\* C34 (as claimed): the batch size main computes for a run with at least
\* one fire and one dataset template is at least 1, and the chunks
\* handle_query_response_pools forms hold every response exactly once, in
\* order.
C34_BatchSizeAtLeastOne ==
    /\ pool_pc \notin {"idle", "size"} => pool_batch_size >= 1
    /\ pool_pc # "raised"
    /\ pool_pc \in {"starmap", "merge", "done"} => Chain(response_chunks) = pool_responses

\* C35: for a batch size of at least 1, what handle_query_response_pools
\* returns is what one call of the classifier on all the responses returns:
\* the same entries per fire, the same bypass lists and the same messages
\* per level.
C35_PoolsEqualSingleCall ==
    pool_pc = "done" =>
        pool_merged = handle_query_responses(pool_responses, pool_plan)

\* a call with batch size 1 has merged four chunks: two entries of one
\* fire from different chunks, bypass lists, and an error message
C35_Witness ==
    /\ pool_pc = "done"
    /\ pool_batch_size = 1
    /\ Len(starmap_results) = 4
    /\ \E x \in DOMAIN pool_merged.query_features_dict :
          Len(pool_merged.query_features_dict[x].pairs) = 2
    /\ pool_merged.results_no_analysis # <<>>
    /\ pool_merged.logger_dict.error # <<>>

(***************************************************************************)
(* Claims about the attribute JSON.                                        *)
(***************************************************************************)
\* the items of the returned text
ReturnedItems == attr_json_serialized.items

\* the items of the argument that the returned text lacks
DroppedItems == Range(attr_json) \ Range(ReturnedItems)

\* C36: _sort_trim_attr_json returns a text of at most max_length
\* characters whose items are in descending order of value and are the k
\* highest-valued items of the argument for the largest k that fits (the
\* text with the highest-valued dropped item added would exceed the limit);
\* every step that drops an item drops the last, lowest-valued one, and only
\* from a text that exceeds the limit.
C36_SortTrimKeepsHighest ==
    /\ [](attr_pc = "returned" =>
            /\ attr_json_serialized.len <= AttrJsonMaxLength
            /\ attr_json_serialized.len = DumpsLen(ReturnedItems)
            /\ \A x, y \in DOMAIN ReturnedItems :
                  x < y => ReturnedItems[x].value >= ReturnedItems[y].value
            /\ Range(ReturnedItems) \subseteq Range(attr_json)
            /\ Cardinality(Range(ReturnedItems)) = Len(ReturnedItems)
            /\ \A kept \in Range(ReturnedItems) : \A dropped \in DroppedItems :
                  kept.value >= dropped.value
            /\ DroppedItems # {} =>
                  \E next \in DroppedItems :
                     /\ \A other \in DroppedItems :
                           \/ other.value < next.value
                           \/ other.value = next.value /\ other.key >= next.key
                     /\ DumpsLen(ReturnedItems \o <<next>>) > AttrJsonMaxLength)
    /\ [][(attr_pc = "loop" /\ attr_json_sorted' # attr_json_sorted) =>
            /\ attr_json_serialized.len > AttrJsonMaxLength
            /\ attr_json_sorted' = SubSeq(attr_json_sorted, 1, Len(attr_json_sorted) - 1)
            /\ \A x \in DOMAIN attr_json_sorted :
                  attr_json_sorted[x].value >= attr_json_sorted[Len(attr_json_sorted)].value]_vars

\* a dict of four items, not in order of value, was cut to two items
C36_Witness ==
    /\ attr_pc = "returned"
    /\ Len(attr_json) = 4
    /\ attr_json[1].value < attr_json[4].value
    /\ Len(ReturnedItems) = 2

\* the rings of the encoding as the polygons the reconstructor sorts
AllRings == [n \in DOMAIN rings |-> Polygon(rings[n])]

\* a ring that at least one other ring of the encoding contains, by the
\* containment test alone
ContainedByAnother(n) ==
    \E m \in DOMAIN rings : m # n /\ contains(AllRings[m], AllRings[n])

\* C37: once the reconstructor has sorted the rings of a multi-ring
\* encoding, every ring is in exactly one of the two lists: in
\* interior_rings if and only if another ring contains it, in exterior_rings
\* otherwise, as the containment test on every ordered pair decides without
\* the bounding-box gatekeeper.
C37_EveryRingInOneClass ==
    cleanup_pc = "classified" =>
        /\ Len(interior_rings) + Len(exterior_rings) = Len(rings)
        /\ \A n \in DOMAIN rings :
              /\ AllRings[n] \in Range(interior_rings) <=> ContainedByAnother(n)
              /\ AllRings[n] \in Range(exterior_rings) <=> ~ ContainedByAnother(n)

\* three rings were sorted: one lies within the box of another that does
\* not contain it, and one is contained
C37_Witness ==
    /\ cleanup_pc = "classified"
    /\ Len(rings) = 3
    /\ Len(interior_rings) = 1
    /\ Len(exterior_rings) = 2
    /\ \E n, m \in DOMAIN rings :
          /\ n # m
          /\ BoxesIntersect(bounds(AllRings[n]), bounds(AllRings[m]))
          /\ ~ contains(AllRings[m], AllRings[n])
          /\ ~ contains(AllRings[n], AllRings[m])

(***************************************************************************)
(* Claims about exceptions that are no client errors.                      *)
(***************************************************************************)
\* the request of bundle b comes back with a timeout in this step
TimeoutDelivered(b) ==
    /\ task_pc[b] = "request"
    /\ log[b].raised = "none"
    /\ log'[b].raised = "TimeoutError"

\* C38: when a request of a bundle raises an exception that is no
\* aiohttp.ClientError (a timeout), the call of arcgis_rest_api_get ends in
\* the same step, whatever the number of client errors before it: the
\* attempt counter and the retry delay stay as they are and the task does not
\* sleep; the bundle's task ends with the outcome (identifier, alias,
\* reduced exception), which stays its outcome to the end of the fan-out.
C38_OtherExceptionNotRetried ==
    /\ [][\A b \in BundleIds :
            TimeoutDelivered(b) =>
                /\ attempts'[b] = attempts[b]
                /\ retry_delay'[b] = retry_delay[b]
                /\ page_requests'[b] = page_requests[b]
                /\ task_pc'[b] = "done"
                /\ outcome'[b] = <<Bundles[b][1], Bundles[b][2], Reduce("TimeoutError")>>]_vars
    /\ [](\A b \in BundleIds :
            log[b].raised = "TimeoutError" =>
                /\ task_pc[b] = "done"
                /\ outcome[b] = <<Bundles[b][1], Bundles[b][2], Reduce("TimeoutError")>>
                /\ (query_responses.bound => query_responses.value[b] = outcome[b]))

\* the fan-out returned: one bundle's request timed out after a client
\* error and a sleep, the other bundle returned its features
C38_Witness ==
    /\ hpc = "done"
    /\ call_result.kind = "returned"
    /\ \E b, c \in BundleIds :
          /\ log[b].raised = "TimeoutError"
          /\ attempts[b] = 1
          /\ retry_delay[b] = 2
          /\ call_result.responses[b][3] = Reduce("TimeoutError")
          /\ log[c].raised = "none"
          /\ call_result.responses[c][3].tag = "dict"

(***************************************************************************)
(* Claims about the layers of the target service.                          *)
(***************************************************************************)
\* the four layers report the same maximum timestamp and the same set of
\* IrwinIDs with HasError = 1
LayersAgree ==
    /\ \A n, m \in DOMAIN tmax_responses : tmax_responses[n] = tmax_responses[m]
    /\ \A n, m \in DOMAIN err_responses : err_responses[n] = err_responses[m]

\* C39 (as claimed): after the comparisons of get_wfigs_updates,
\* check_json_pickles is True if and only if the four layers report the
\* same maximum timestamp and the same set of IrwinIDs with HasError = 1,
\* whichever of the four layers differs.
C39_FlagFalseWhenLayersDiffer ==
    wfigs_pc = "compared" => (check_json_pickles <=> LayersAgree)

====
